---- MODULE Spec2Model ----
(***************************************************************************)
(* Model of pytorch_optimizer/optimizer/shampoo_utils.py: the block        *)
(* partitioner, the Shampoo PreConditioner and the matrix power routines.  *)
(*                                                                         *)
(* A tensor is a record [shape, data]: shape is the sequence of axis       *)
(* lengths and data the elements in row-major (contiguous) order.  Axes    *)
(* are numbered from 1 here and from 0 in the Python source.  Numbers are  *)
(* exact rationals <<n, d>> in lowest terms with d > 0.                    *)
(***************************************************************************)
EXTENDS Integers, Sequences, FiniteSets, TLC

VARIABLES
    ctor,          \* the arguments the object under test was constructed with
    partitioner,   \* the BlockPartitioner under test (SpecPartition)
    pre,           \* the PreConditioner under test (Spec, SpecStats, SpecExponent)
    call,          \* the last call made: [op, ...arguments]
    ret,           \* what the last call returned or raised
    steps,         \* number of calls made so far (bounded by MaxSteps)
    frame,         \* the local variables of a running power_iter / compute_power
    graft,         \* the Graft object under test (SpecGraft)
    pre2,          \* a second PreConditioner, of another variable (SpecTwo)
    rng,           \* how many numbers torch.rand has drawn from the global generator
    alone,         \* each of the two PreConditioners as its calls alone leave it
    log            \* the calls made so far on the Graft, oldest first (SpecGraft)

vars == <<ctor, partitioner, pre, call, ret, steps, frame, graft, pre2, rng, alone, log>>

(***************************************************************************)
(* Bounds of the model.                                                    *)
(***************************************************************************)
MaxDim == 3        \* axis lengths range over 1..MaxDim
MaxRank == 3       \* tensors have 0..MaxRank axes
MaxNumel == 12     \* and at most MaxNumel elements
MaxBlock == 3      \* block_size ranges over -1..MaxBlock
MaxSteps == 2      \* state-changing calls per behaviour
MaxOverride == 3   \* inverse_exponent_override ranges over -1..MaxOverride

(***************************************************************************)
(* Rational arithmetic.                                                    *)
(***************************************************************************)
Abs(x) == IF x < 0 THEN -x ELSE x

RECURSIVE Gcd(_, _)
Gcd(a, b) == IF b = 0 THEN a ELSE Gcd(b, a % b)

Rat(n, d) ==
    LET g == Gcd(Abs(n), Abs(d))
        s == IF d < 0 THEN -1 ELSE 1
    IN  <<(s * n) \div g, (s * d) \div g>>

R(n) == <<n, 1>>
RZero == <<0, 1>>
ROne == <<1, 1>>
RNeg(a) == <<-a[1], a[2]>>
\* Sums go over the least common denominator and products cancel first, so
\* that intermediate values stay small.
RAdd(a, b) ==
    LET g == Gcd(a[2], b[2])
    IN  Rat(a[1] * (b[2] \div g) + b[1] * (a[2] \div g), a[2] * (b[2] \div g))
RSub(a, b) == RAdd(a, RNeg(b))
RMul(a, b) ==
    LET g1 == Gcd(Abs(a[1]), b[2])
        g2 == Gcd(Abs(b[1]), a[2])
    IN  <<(a[1] \div g1) * (b[1] \div g2), (a[2] \div g2) * (b[2] \div g1)>>
RLe(a, b) == a[1] * b[2] <= b[1] * a[2]
RLt(a, b) == a[1] * b[2] < b[1] * a[2]

(***************************************************************************)
(* Sequences and index arithmetic.                                         *)
(***************************************************************************)
RECURSIVE Prod(_)
Prod(s) == IF s = <<>> THEN 1 ELSE Head(s) * Prod(Tail(s))

RECURSIVE SumSeq(_)
SumSeq(s) == IF s = <<>> THEN 0 ELSE Head(s) + SumSeq(Tail(s))

RECURSIVE RSumSeq(_)
RSumSeq(s) == IF s = <<>> THEN RZero ELSE RAdd(Head(s), RSumSeq(Tail(s)))

RECURSIVE Flatten(_)
Flatten(ss) == IF ss = <<>> THEN <<>> ELSE Head(ss) \o Flatten(Tail(ss))

Prefix(s, n) == SubSeq(s, 1, n)
Suffix(s, n) == SubSeq(s, n, Len(s))

\* Row-major stride of axis k in a tensor of shape s.
Stride(s, k) == Prod(Suffix(s, k + 1))

\* The 0-based multi-index of the f-th (0-based) element of shape s.
Unravel(f, s) == [k \in 1..Len(s) |-> (f \div Stride(s, k)) % s[k]]

\* The 0-based flat position of multi-index idx in shape s.
Ravel(idx, s) == SumSeq([k \in 1..Len(s) |-> idx[k] * Stride(s, k)])

At(t, idx) == t.data[Ravel(idx, t.shape) + 1]

\* A function on 1..n as a sequence (TLC then holds its elements, and does
\* not compute them again at every use).
Seq_(f) == f \o <<>>

\* The tensor of shape s whose element at multi-index idx is F(idx).
MkTensor(s, F(_)) ==
    [shape |-> s, data |-> Seq_([f \in 1..Prod(s) |-> F(Unravel(f - 1, s))])]

(***************************************************************************)
(* What a call produces: a value, or an exception.                         *)
(***************************************************************************)
Ok(v) == [exc |-> "", val |-> v]
Raise(e) == [exc |-> e, val |-> <<>>]
Raised(r) == r.exc # ""

(***************************************************************************)
(* torch primitives used by the partitioner and the preconditioner.        *)
(***************************************************************************)
\* torch.reshape of a contiguous tensor: same elements in row-major order.
torch_reshape(t, s) ==
    IF Prod(s) = Prod(t.shape)
    THEN Ok([shape |-> s, data |-> t.data])
    ELSE Raise("RuntimeError")

\* Offset of piece k when an axis is cut into pieces of the given sizes.
Offset(sizes, k) == SumSeq(Prefix(sizes, k - 1))

\* torch.split(t, sizes, dim): the consecutive slices of t along axis dim.
torch_split(t, sizes, dim) ==
    [k \in 1..Len(sizes) |->
        MkTensor([t.shape EXCEPT ![dim] = sizes[k]],
                 LAMBDA idx : At(t, [idx EXCEPT ![dim] = @ + Offset(sizes, k)]))]

\* The piece of a concatenation along some axis that holds position a.
PieceOf(sizes, a) ==
    CHOOSE k \in 1..Len(sizes) :
        Offset(sizes, k) <= a /\ a < Offset(sizes, k) + sizes[k]

\* torch.cat(ts, axis): all tensors must agree on every other axis.
torch_cat(ts, axis) ==
    IF \/ ts = <<>>
       \/ \E k \in 1..Len(ts) : Len(ts[k].shape) # Len(ts[1].shape)
       \/ axis > Len(ts[1].shape)
    THEN Raise("RuntimeError")
    ELSE IF \E k \in 1..Len(ts) : \E a \in 1..Len(ts[1].shape) :
                a # axis /\ ts[k].shape[a] # ts[1].shape[a]
    THEN Raise("RuntimeError")
    ELSE LET sizes == [k \in 1..Len(ts) |-> ts[k].shape[axis]]
             s == [ts[1].shape EXCEPT ![axis] = SumSeq(sizes)]
         IN  Ok(MkTensor(s, LAMBDA idx :
                    LET k == PieceOf(sizes, idx[axis])
                    IN  At(ts[k], [idx EXCEPT ![axis] = @ - Offset(sizes, k)])))

(***************************************************************************)
(* Matrices are tensors with two axes.                                     *)
(***************************************************************************)
Entry(m, i, j) == m.data[(i - 1) * m.shape[2] + j]

Matrix(n, k, F(_, _)) ==
    [shape |-> <<n, k>>,
     data |-> Seq_([f \in 1..(n * k) |->
                        F(((f - 1) \div k) + 1, ((f - 1) % k) + 1)])]

\* torch.eye(n)
torch_eye(n) == Matrix(n, n, LAMBDA i, j : IF i = j THEN ROne ELSE RZero)

\* torch.matmul of two matrices
torch_matmul(a, b) ==
    Matrix(a.shape[1], b.shape[2], LAMBDA i, j :
        RSumSeq([k \in 1..a.shape[2] |-> RMul(Entry(a, i, k), Entry(b, k, j))]))

\* c * m, elementwise
Scale(c, m) ==
    [m EXCEPT !.data = Seq_([f \in DOMAIN m.data |-> RMul(c, m.data[f])])]

\* a + b, elementwise
MatAdd(a, b) ==
    [a EXCEPT !.data =
        Seq_([f \in DOMAIN a.data |-> RAdd(a.data[f], b.data[f])])]

(***************************************************************************)
(* class PreConditionerType(IntEnum)                                       *)
(***************************************************************************)
ALL == 0
INPUT == 1

(***************************************************************************)
(* class BlockPartitioner                                                  *)
(***************************************************************************)
\* The test `0 < block_size < d` that decides whether an axis is split.
is_split(d, block_size) == 0 < block_size /\ block_size < d

\* Mutant: d // block_size, which appends an empty block when block_size
\* divides d (the case the source's comment warns about).
num_split_floor(d, block_size) == d \div block_size

num_split(d, block_size) == (d - 1) \div block_size

\* indices = (np.arange(num_split) + 1) * block_size
split_indices(d, block_size) ==
    [k \in 1..num_split(d, block_size) |-> k * block_size]

\* sizes = np.ones(num_split + 1) * block_size; sizes[-1] = d - indices[-1]
split_sizes_of(d, block_size) ==
    LET n == num_split(d, block_size)
        indices == split_indices(d, block_size)
    IN  [k \in 1..(n + 1) |-> IF k = n + 1 THEN d - indices[n] ELSE block_size]

\* The local list split_sizes of __init__: one entry per axis.
axis_sizes(shape, block_size) ==
    [i \in 1..Len(shape) |->
        IF is_split(shape[i], block_size)
        THEN split_sizes_of(shape[i], block_size)
        ELSE <<shape[i]>>]

\* itertools.product(*seqs): tuples in row-major order, last sequence fastest.
RECURSIVE itertools_product(_)
itertools_product(seqs) ==
    IF seqs = <<>> THEN << <<>> >>
    ELSE LET rest == itertools_product(Tail(seqs))
         IN  Flatten([a \in 1..Len(Head(seqs)) |->
                 [r \in 1..Len(rest) |-> <<Head(seqs)[a]>> \o rest[r]]])

\* The split axes, in axis order.
split_axes(shape, block_size) ==
    SelectSeq([i \in 1..Len(shape) |-> i],
              LAMBDA i : is_split(shape[i], block_size))

\* Mutant: the last axis is kept whatever the type.
pre_conditioner_shapes_all(shape, block_size, pre_conditioner_type) ==
    LET tuples == itertools_product(axis_sizes(shape, block_size))
    IN  Flatten([j \in 1..Len(tuples) |->
            [i \in 1..Len(tuples[j]) |-> <<tuples[j][i], tuples[j][i]>>]])

pre_conditioner_shapes_of(shape, block_size, pre_conditioner_type) ==
    LET tuples == itertools_product(axis_sizes(shape, block_size))
        num_splits == Len(shape)
        cut(t) == IF ~(pre_conditioner_type = ALL \/ num_splits <= 1)
                  THEN Prefix(t, Len(t) - 1) ELSE t
    IN  Flatten([j \in 1..Len(tuples) |->
            [i \in 1..Len(cut(tuples[j])) |->
                <<cut(tuples[j])[i], cut(tuples[j])[i]>>]])

\* BlockPartitioner.__init__
BlockPartitioner(shape, block_size, pre_conditioner_type) ==
    LET axes == split_axes(shape, block_size)
    IN  [shape |-> shape,
         splits |-> [k \in 1..Len(axes) |->
                        <<axes[k], split_indices(shape[axes[k]], block_size)>>],
         split_sizes |-> [k \in 1..Len(axes) |->
                        <<axes[k], split_sizes_of(shape[axes[k]], block_size)>>],
         num_splits |-> Len(shape),
         pre_conditioner_shapes |->
             pre_conditioner_shapes_of(shape, block_size, pre_conditioner_type)]

shapes_for_pre_conditioners(self) == self.pre_conditioner_shapes

\* torch.split raises unless the sizes add up to the length of the axis.
split_fits(t, sizes, dim) ==
    dim <= Len(t.shape) /\ SumSeq(sizes) = t.shape[dim]

\* The loop of partition: every tensor so far is split along the next axis.
RECURSIVE partition_loop(_, _)
partition_loop(tensors, split_sizes) ==
    IF split_sizes = <<>> THEN Ok(tensors)
    ELSE LET i == Head(split_sizes)[1]
             sizes == Head(split_sizes)[2]
         IN  IF \E k \in 1..Len(tensors) : ~split_fits(tensors[k], sizes, i)
             THEN Raise("RuntimeError")
             ELSE partition_loop(
                     Flatten([k \in 1..Len(tensors) |->
                                 torch_split(tensors[k], sizes, i)]),
                     Tail(split_sizes))

\* Mutant: partition without the shape check.
partition_unchecked(self, x) == partition_loop(<<x>>, self.split_sizes)

\* BlockPartitioner.partition
partition(self, x) ==
    IF x.shape # self.shape
    THEN Raise("ValueError")
    ELSE partition_loop(<<x>>, self.split_sizes)

Min(a, b) == IF a < b THEN a ELSE b
Reverse(s) == [k \in 1..Len(s) |-> s[Len(s) + 1 - k]]

\* partitions[idx:idx + n] for idx in range(0, len(partitions), n)
groups_of(partitions, n) ==
    [g \in 1..((Len(partitions) + n - 1) \div n) |->
        SubSeq(partitions, (g - 1) * n + 1, Min(g * n, Len(partitions)))]

\* The loop of merge_partitions, over reversed(self.splits).
RECURSIVE merge_loop(_, _)
merge_loop(partitions, splits) ==
    IF splits = <<>> THEN Ok(partitions)
    ELSE LET i == Head(splits)[1]
             n == Len(Head(splits)[2]) + 1
             groups == groups_of(partitions, n)
             cats == [g \in 1..Len(groups) |-> torch_cat(groups[g], i)]
         IN  IF \E g \in 1..Len(cats) : Raised(cats[g])
             THEN Raise("RuntimeError")
             ELSE merge_loop([g \in 1..Len(cats) |-> cats[g].val], Tail(splits))

\* Mutant: the split axes are merged first to last, not in reverse.
merge_partitions_forward(self, partitions) ==
    LET merged == merge_loop(partitions, self.splits)
    IN  IF Raised(merged) THEN merged
        ELSE IF merged.val = <<>> THEN Raise("IndexError")
        ELSE Ok(merged.val[1])

\* BlockPartitioner.merge_partitions
merge_partitions(self, partitions) ==
    LET merged == merge_loop(partitions, Reverse(self.splits))
    IN  IF Raised(merged) THEN merged
        ELSE IF merged.val = <<>> THEN Raise("IndexError")
        ELSE Ok(merged.val[1])

(***************************************************************************)
(* matrix_power                                                            *)
(***************************************************************************)
Pow4(k) == IF k = 0 THEN 1 ELSE IF k = 1 THEN 4 ELSE IF k = 2 THEN 16
           ELSE IF k = 3 THEN 64 ELSE IF k = 4 THEN 256 ELSE 1024

\* int(np.round(np.log2(p))) for an integer p in 1..45: the k with
\* 2^(k - 1/2) < p < 2^(k + 1/2), that is 4^k < 2 p^2 and p^2 < 2 * 4^k.
\* (log2 of an integer is never half way between two integers.)
round_log2(p) ==
    CHOOSE k \in 0..5 : Pow4(k) < 2 * p * p /\ p * p < 2 * Pow4(k)

\* The exception matrix_power(mat_m, p) ends with, "" when it returns.
\* np.log2 of 0 is -inf and of a negative number nan, and int() of either
\* raises; an exponent above 3 reaches the bare `raise`, a RuntimeError (no
\* active exception to re-raise).
matrix_power_exc(p) ==
    IF p = 0 THEN "OverflowError"
    ELSE IF p < 0 THEN "ValueError"
    ELSE IF round_log2(p) > 3 THEN "RuntimeError"
    ELSE ""

\* Mutant: the fourth power is taken as mat_pow_2 times mat_m.
matrix_power_cube(mat_m, p) ==
    IF matrix_power_exc(p) # "" THEN Raise(matrix_power_exc(p))
    ELSE LET exponent == round_log2(p)
             mat_pow_2 == torch_matmul(mat_m, mat_m)
             mat_pow_4 == torch_matmul(mat_pow_2, mat_m)
         IN  IF exponent = 0 THEN Ok(mat_m)
             ELSE IF exponent = 1 THEN Ok(mat_pow_2)
             ELSE IF exponent = 2 THEN Ok(mat_pow_4)
             ELSE Ok(torch_matmul(mat_pow_4, mat_pow_4))

\* matrix_power(mat_m, p)
matrix_power(mat_m, p) ==
    IF matrix_power_exc(p) # "" THEN Raise(matrix_power_exc(p))
    ELSE LET exponent == round_log2(p)
             mat_pow_2 == torch_matmul(mat_m, mat_m)
             mat_pow_4 == torch_matmul(mat_pow_2, mat_pow_2)
         IN  IF exponent = 0 THEN Ok(mat_m)
             ELSE IF exponent = 1 THEN Ok(mat_pow_2)
             ELSE IF exponent = 2 THEN Ok(mat_pow_4)
             ELSE Ok(torch_matmul(mat_pow_4, mat_pow_4))

\* The number of torch.matmul calls matrix_power(mat_m, p) makes.
matrix_power_matmuls(p) ==
    IF p <= 0 THEN 0
    ELSE LET exponent == round_log2(p)
         IN  IF exponent = 0 THEN 0
             ELSE IF exponent = 1 THEN 1
             ELSE IF exponent = 2 THEN 2
             ELSE 3

(***************************************************************************)
(* merge_small_dims                                                        *)
(***************************************************************************)
\* The loop of merge_small_dims; st = [resulting_shape, product].
RECURSIVE merge_small_dims_loop(_, _, _)
merge_small_dims_loop(st, dims, max_dim) ==
    IF dims = <<>> THEN st
    ELSE LET d == Head(dims)
         IN  merge_small_dims_loop(
                 IF st.product * d <= max_dim
                 THEN [st EXCEPT !.product = @ * d]
                 ELSE [resulting_shape |->
                          IF st.product > 1
                          THEN Append(st.resulting_shape, st.product)
                          ELSE st.resulting_shape,
                       product |-> d],
                 Tail(dims), max_dim)

\* Mutant: the product left over after the loop is not appended.
merge_small_dims_no_tail(shape_to_merge, max_dim) ==
    IF shape_to_merge # <<>> /\ \A k \in 1..Len(shape_to_merge) : shape_to_merge[k] = 1
    THEN <<1>>
    ELSE merge_small_dims_loop([resulting_shape |-> <<>>, product |-> 1],
                               shape_to_merge, max_dim).resulting_shape

merge_small_dims(shape_to_merge, max_dim) ==
    IF shape_to_merge # <<>> /\ \A k \in 1..Len(shape_to_merge) : shape_to_merge[k] = 1
    THEN <<1>>
    ELSE LET st == merge_small_dims_loop([resulting_shape |-> <<>>, product |-> 1],
                                         shape_to_merge, max_dim)
         IN  IF st.product > 1
             THEN Append(st.resulting_shape, st.product)
             ELSE st.resulting_shape

(***************************************************************************)
(* More torch primitives.                                                  *)
(***************************************************************************)
\* torch.tensordot(g, g, [axes, axes]) with axes = every axis but i: the
\* matrix whose (a, b) entry is the sum, over the positions of the other
\* axes, of g[.. a ..] * g[.. b ..].
tensordot_self(g, i) ==
    LET d == g.shape[i]
        rest == [g.shape EXCEPT ![i] = 1]
    IN  Matrix(d, d, LAMBDA a, b :
            RSumSeq([f \in 1..Prod(rest) |->
                RMul(At(g, [Unravel(f - 1, rest) EXCEPT ![i] = a - 1]),
                     At(g, [Unravel(f - 1, rest) EXCEPT ![i] = b - 1]))]))

\* torch.tensordot(g, m, dims=[[0], [0]]): the first axis of g is summed
\* against the first axis of the matrix m, whose second axis comes last.
tensordot_first(g, m) ==
    IF g.shape = <<>> \/ g.shape[1] # m.shape[1]
    THEN Raise("RuntimeError")
    ELSE LET s == Tail(g.shape) \o <<m.shape[2]>>
             r == Len(g.shape)
         IN  Ok(MkTensor(s, LAMBDA idx :
                    RSumSeq([a \in 1..g.shape[1] |->
                        RMul(At(g, <<a - 1>> \o Prefix(idx, r - 1)),
                             Entry(m, a, idx[r] + 1))])))

\* Mutant: the axes are rolled the other way, the last axis coming first.
permute_roll_back(g) ==
    LET r == Len(g.shape)
        s == [k \in 1..r |-> g.shape[((k + r - 2) % r) + 1]]
    IN  MkTensor(s, LAMBDA idx : At(g, [m \in 1..r |-> idx[(m % r) + 1]]))

\* torch.permute(g, roll).contiguous() with roll = (1, ..., rank - 1, 0):
\* axis k of the result is axis k + 1 of g, and the last is the first of g.
permute_roll(g) ==
    LET r == Len(g.shape)
        s == [k \in 1..r |-> g.shape[(k % r) + 1]]
    IN  MkTensor(s, LAMBDA idx : At(g, [m \in 1..r |-> idx[((m + r - 2) % r) + 1]]))

\* Mutant: other is subtracted.
mul_sub_(self, beta2, other, w2) ==
    IF other.shape = self.shape
    THEN Ok(MatAdd(Scale(beta2, self), Scale(RNeg(w2), other)))
    ELSE Raise("RuntimeError")

\* self.mul_(beta2).add_(other, alpha=w2): in place, so other must
\* broadcast to the shape of self (equal shapes, or a 1 x 1 other).
mul_add_(self, beta2, other, w2) ==
    IF other.shape = self.shape
    THEN Ok(MatAdd(Scale(beta2, self), Scale(w2, other)))
    ELSE IF other.shape = <<1, 1>>
    THEN Ok([self EXCEPT !.data = Seq_([f \in DOMAIN self.data |->
                 RAdd(RMul(beta2, self.data[f]), RMul(w2, other.data[1]))])])
    ELSE Raise("RuntimeError")

(***************************************************************************)
(* power_iter and compute_power.                                           *)
(*                                                                         *)
(* The floating-point quantities of these routines are not computed here.  *)
(* A record fl stands for them in one call:                                *)
(*   fl.v        the vector at which power_iter, started from a random     *)
(*               vector, takes its last Rayleigh quotient;                 *)
(*   fl.q        pow(z, 1 / p), for the scale z = (1 + p) / (2 * norm);    *)
(*   fl.entered  whether the while loop runs its body at least once        *)
(*               (error > error_tolerance on entry);                       *)
(*   fl.accepted how many iterations multiply mat_m_i into mat_root before *)
(*               the error test, the divergence test or the cap ends the   *)
(*               loop.                                                     *)
(***************************************************************************)
IterCount == 1     \* accepted iterations range over 0..IterCount

RECURSIVE RPow(_, _)
RPow(a, k) == IF k = 0 THEN ROne ELSE RMul(a, RPow(a, k - 1))

RECURSIVE MatPow(_, _)
MatPow(m, k) ==
    IF k = 0 THEN torch_eye(m.shape[1]) ELSE torch_matmul(MatPow(m, k - 1), m)

\* power_iter(mat_g)[0]: singular_val = dot(v, mat_g v) for a unit vector v,
\* here the first basis vector or the normalised vector of ones.
power_iter(mat_g, v) ==
    LET n == mat_g.shape[1]
    IN  IF v = "e1" THEN Entry(mat_g, 1, 1)
        ELSE RMul(Rat(1, n), RSumSeq(mat_g.data))

\* compute_power(mat_g, p, ridge_epsilon=...): [exc, val, mat_g], where mat_g
\* is the argument after the call (`mat_g += ridge_epsilon * identity` is in
\* place).  The argument is a matrix here: the branch for a one-axis mat_g
\* is not reached from compute_pre_conditioners.
compute_power(mat_g, p, ridge_epsilon, fl) ==
    LET identity == torch_eye(mat_g.shape[1])
    IN  IF mat_g.shape[1] = 1
        THEN [exc |-> "", val |-> identity, mat_g |-> mat_g]
        ELSE LET max_ev == power_iter(mat_g, fl.v)
                 ridged == MatAdd(mat_g, Scale(RMul(ridge_epsilon, max_ev), identity))
                 z == RPow(fl.q, p)
                 mat_root == Scale(fl.q, identity)
                 mat_m == Scale(z, ridged)
                 alpha == Rat(-1, p)
                 mat_m_i == MatAdd(Scale(RSub(ROne, alpha), identity),
                                   Scale(alpha, mat_m))
             IN  IF ~fl.entered
                 THEN [exc |-> "", val |-> mat_root, mat_g |-> ridged]
                 ELSE IF matrix_power_exc(p) # ""
                 THEN [exc |-> matrix_power_exc(p), val |-> <<>>, mat_g |-> ridged]
                 ELSE [exc |-> "",
                       val |-> torch_matmul(mat_root, MatPow(mat_m_i, fl.accepted)),
                       mat_g |-> ridged]

(***************************************************************************)
(* compute_power, statement by statement.                                  *)
(*                                                                         *)
(* Here the arithmetic is exact: a call is followed only when the          *)
(* Frobenius norm of mat_g and pow(z, 1 / p) are rational numbers          *)
(* (ExactCall below), and p >= 1.  The local variables of the call are the *)
(* record frame; frame.pc is the position in the routine:                  *)
(*   "call"   before the first statement,                                  *)
(*   "while"  at the test of the while loop,                               *)
(*   "break"  after the break of the divergence test,                      *)
(*   "done"   after a return, "raised" after an exception.                 *)
(***************************************************************************)
\* a^k, or some number above cap once the power exceeds cap.
RECURSIVE IPowSat(_, _, _)
IPowSat(a, k, cap) ==
    IF k = 0 THEN 1
    ELSE LET r == IPowSat(a, k - 1, cap)
         IN  IF r > cap THEN r ELSE r * a

IsPower(n, k) == \E a \in 1..n : IPowSat(a, k, n) = n
IntRoot(n, k) == CHOOSE a \in 1..n : IPowSat(a, k, n) = n

\* Whether the positive rational x has a rational k-th root, and that root.
HasRoot(x, k) == x[1] > 0 /\ IsPower(x[1], k) /\ IsPower(x[2], k)
RRoot(x, k) == <<IntRoot(x[1], k), IntRoot(x[2], k)>>

RDiv(a, b) == RMul(a, Rat(b[2], b[1]))
RAbs(a) == <<Abs(a[1]), a[2]>>

\* a < b, by the sign of the difference.
RLess(a, b) == RSub(a, b)[1] < 0

\* The sum of the squares of the elements of a tensor.
SumOfSquares(m) == RSumSeq([f \in DOMAIN m.data |-> RMul(m.data[f], m.data[f])])

\* torch.norm(m): the Frobenius norm.
torch_norm(m) == RRoot(SumOfSquares(m), 2)

\* torch.max(torch.abs(m))
RECURSIVE RMaxSeq(_)
RMaxSeq(s) ==
    IF Len(s) = 1 THEN s[1]
    ELSE LET r == RMaxSeq(Tail(s)) IN IF RLess(r, s[1]) THEN s[1] ELSE r

max_abs(m) == RMaxSeq([f \in DOMAIN m.data |-> RAbs(m.data[f])])

MatSub(a, b) == MatAdd(a, Scale(R(-1), b))

max_error_ratio == Rat(6, 5)

None == <<>>

NoLocals ==
    [mat_g |-> None, mat_root |-> None, mat_m |-> None, error |-> None,
     count |-> 0, mat_m_i |-> None, new_mat_m |-> None, new_error |-> None,
     exc |-> ""]

\* The frame before the first statement.
compute_power_frame(mat_g) == [NoLocals EXCEPT !.mat_g = mat_g] @@ [pc |-> "call"]

\* z = (1 + p) / (2 * torch.norm(mat_g)), for mat_g after the ridge.
scale_z(mat_g, p) == RDiv(R(1 + p), RMul(R(2), torch_norm(mat_g)))

\* mat_g after `mat_g += ridge_epsilon * max_ev * identity`.
ridged_mat_g(mat_g, ridge_epsilon, v) ==
    MatAdd(mat_g, Scale(RMul(ridge_epsilon, power_iter(mat_g, v)),
                        torch_eye(mat_g.shape[1])))

\* The statements before the loop: the frame at the first loop test, or after
\* one of the two early returns.
compute_power_setup(fr, p, ridge_epsilon, v) ==
    IF Len(fr.mat_g.shape) = 1
    THEN [fr EXCEPT !.pc = "done",
             !.mat_root = [fr.mat_g EXCEPT !.data =
                 [f \in DOMAIN fr.mat_g.data |->
                     RDiv(ROne, RRoot(RAdd(fr.mat_g.data[f], ridge_epsilon), p))]]]
    ELSE IF fr.mat_g.shape[1] = 1
    THEN [fr EXCEPT !.pc = "done", !.mat_root = torch_eye(1)]
    ELSE LET identity == torch_eye(fr.mat_g.shape[1])
             mat_g == ridged_mat_g(fr.mat_g, ridge_epsilon, v)
             z == scale_z(mat_g, p)
             mat_m == Scale(z, mat_g)
         IN  [fr EXCEPT !.pc = "while",
                 !.mat_g = mat_g,
                 !.mat_root = Scale(RRoot(z, p), identity),
                 !.mat_m = mat_m,
                 !.error = max_abs(MatSub(mat_m, identity)),
                 !.count = 0]

\* Mutant: the cap is tested with <=.
loop_test_inclusive(fr, iter_count, error_tolerance) ==
    RLess(error_tolerance, fr.error) /\ fr.count <= iter_count

\* The test of the while loop.
loop_test(fr, iter_count, error_tolerance) ==
    RLess(error_tolerance, fr.error) /\ fr.count < iter_count

\* Mutant: the factor of the rejected pass is multiplied in before the break.
compute_power_iteration_late_break(fr, p) ==
    LET identity == torch_eye(fr.mat_g.shape[1])
        alpha == Rat(-1, p)
        mat_m_i == MatAdd(Scale(RSub(ROne, alpha), identity), Scale(alpha, fr.mat_m))
        powered == matrix_power(mat_m_i, p)
        new_mat_m == torch_matmul(powered.val, fr.mat_m)
        new_error == max_abs(MatSub(new_mat_m, identity))
        broke == RLess(RMul(fr.error, max_error_ratio), new_error)
    IN  IF Raised(powered)
        THEN [fr EXCEPT !.pc = "raised", !.mat_m_i = mat_m_i, !.exc = powered.exc]
        ELSE [fr EXCEPT !.pc = IF broke THEN "break" ELSE fr.pc,
                        !.mat_m_i = mat_m_i, !.new_mat_m = new_mat_m,
                        !.new_error = new_error,
                        !.mat_root = torch_matmul(fr.mat_root, mat_m_i),
                        !.error = IF broke THEN fr.error ELSE new_error,
                        !.count = IF broke THEN fr.count ELSE fr.count + 1]

\* One pass through the body of the while loop.
compute_power_iteration(fr, p) ==
    LET identity == torch_eye(fr.mat_g.shape[1])
        alpha == Rat(-1, p)
        mat_m_i == MatAdd(Scale(RSub(ROne, alpha), identity), Scale(alpha, fr.mat_m))
        powered == matrix_power(mat_m_i, p)
        new_mat_m == torch_matmul(powered.val, fr.mat_m)
        new_error == max_abs(MatSub(new_mat_m, identity))
    IN  IF Raised(powered)
        THEN [fr EXCEPT !.pc = "raised", !.mat_m_i = mat_m_i, !.exc = powered.exc]
        ELSE IF RLess(RMul(fr.error, max_error_ratio), new_error)
        THEN [fr EXCEPT !.pc = "break", !.mat_m_i = mat_m_i,
                        !.new_mat_m = new_mat_m, !.new_error = new_error]
        ELSE [fr EXCEPT !.mat_m_i = mat_m_i, !.new_mat_m = new_mat_m,
                        !.new_error = new_error,
                        !.mat_root = torch_matmul(fr.mat_root, mat_m_i),
                        !.error = new_error,
                        !.count = fr.count + 1]

(***************************************************************************)
(* power_iter, statement by statement.                                     *)
(*                                                                         *)
(* frame.v holds the direction of v: the loop body divides v by its norm   *)
(* before any use, and s_v = dot(v, mat_g v) for the unit vector is the    *)
(* quotient dot(v, mat_g v) / dot(v, v) for any vector of that direction.  *)
(***************************************************************************)
\* torch.mv(mat, v)
torch_mv(mat, v) ==
    [i \in 1..mat.shape[1] |->
        RSumSeq([j \in 1..mat.shape[2] |-> RMul(Entry(mat, i, j), v[j])])]

\* torch.dot(a, b)
torch_dot(a, b) == RSumSeq([i \in DOMAIN a |-> RMul(a[i], b[i])])

\* The frame at the first loop test.
power_iter_frame(mat_g, v) ==
    [pc |-> "while", mat_g |-> mat_g, v |-> v, error |-> ROne, iters |-> 0,
     singular_val |-> RZero]

\* while error > error_tolerance and iters < num_iters
power_iter_test(fr, error_tolerance, num_iters) ==
    RLess(error_tolerance, fr.error) /\ fr.iters < num_iters

\* One pass through the body of the loop.
power_iter_iteration(fr) ==
    LET mat_v == torch_mv(fr.mat_g, fr.v)
        s_v == RDiv(torch_dot(fr.v, mat_v), torch_dot(fr.v, fr.v))
    IN  [fr EXCEPT !.error = RAbs(RSub(s_v, fr.singular_val)),
                   !.v = mat_v,
                   !.singular_val = s_v,
                   !.iters = fr.iters + 1]

(***************************************************************************)
(* class PreConditioner                                                    *)
(***************************************************************************)
\* Mutant: the partitioner and the matrices are built for one axis too.
PreConditioner_one_axis(var_shape, beta2, inverse_exponent_override, block_size, shape_interpretation, matrix_eps, pre_conditioner_type) ==
    LET transformed_shape ==
            IF shape_interpretation
            THEN merge_small_dims(var_shape, block_size)
            ELSE var_shape
        partitioner_ == BlockPartitioner(transformed_shape, block_size,
                                         pre_conditioner_type)
        shapes == shapes_for_pre_conditioners(partitioner_)
        built == Len(transformed_shape) > 0
    IN  [beta2 |-> beta2,
         inverse_exponent_override |-> inverse_exponent_override,
         matrix_eps |-> matrix_eps,
         pre_conditioner_type |-> pre_conditioner_type,
         original_shape |-> var_shape,
         transformed_shape |-> transformed_shape,
         partitioner |-> IF built THEN partitioner_ ELSE None,
         statistics |->
             IF built
             THEN [k \in 1..Len(shapes) |-> Scale(matrix_eps, torch_eye(shapes[k][1]))]
             ELSE <<>>,
         pre_conditioners |->
             IF built
             THEN [k \in 1..Len(shapes) |-> torch_eye(shapes[k][1])]
             ELSE <<>>]

\* PreConditioner.__init__, for a variable of shape var_shape.
PreConditioner(var_shape, beta2, inverse_exponent_override, block_size, shape_interpretation, matrix_eps, pre_conditioner_type) ==
    LET transformed_shape ==
            IF shape_interpretation
            THEN merge_small_dims(var_shape, block_size)
            ELSE var_shape
        partitioner_ == BlockPartitioner(transformed_shape, block_size,
                                         pre_conditioner_type)
        shapes == shapes_for_pre_conditioners(partitioner_)
        built == Len(transformed_shape) > 1
    IN  [beta2 |-> beta2,
         inverse_exponent_override |-> inverse_exponent_override,
         matrix_eps |-> matrix_eps,
         pre_conditioner_type |-> pre_conditioner_type,
         original_shape |-> var_shape,
         transformed_shape |-> transformed_shape,
         partitioner |-> IF built THEN partitioner_ ELSE None,
         statistics |->
             IF built
             THEN [k \in 1..Len(shapes) |-> Scale(matrix_eps, torch_eye(shapes[k][1]))]
             ELSE <<>>,
         pre_conditioners |->
             IF built
             THEN [k \in 1..Len(shapes) |-> torch_eye(shapes[k][1])]
             ELSE <<>>]

\* PreConditioner.should_precondition_dims
should_precondition_dims(self) ==
    LET rank == Len(self.transformed_shape)
    IN  IF self.pre_conditioner_type = ALL \/ rank <= 1
        THEN [k \in 1..rank |-> TRUE]
        ELSE [k \in 1..rank |-> k < rank]

\* sum() of a list of booleans
CountTrue(bs) == Cardinality({k \in 1..Len(bs) : bs[k]})

\* Mutant: any override but 0 is returned.
exponent_nonzero_override(self) ==
    IF self.inverse_exponent_override # 0
    THEN self.inverse_exponent_override
    ELSE 2 * CountTrue(should_precondition_dims(self))

\* PreConditioner.exponent_for_pre_conditioner
exponent_for_pre_conditioner(self) ==
    IF self.inverse_exponent_override > 0
    THEN self.inverse_exponent_override
    ELSE 2 * CountTrue(should_precondition_dims(self))

\* The pairs (j, i) the two nested loops of add_statistics visit, in order.
block_axis_pairs(n_blocks, rank) ==
    [k \in 1..(n_blocks * rank) |-> <<((k - 1) \div rank) + 1, ((k - 1) % rank) + 1>>]

\* The nested loops of add_statistics: statistics[j * rank + i] is updated in
\* place, pair after pair, until one raises.
RECURSIVE add_statistics_loop(_, _, _, _, _, _)
add_statistics_loop(statistics, partitioned_grads, pairs, beta2, w2, rank) ==
    IF pairs = <<>> THEN [exc |-> "", statistics |-> statistics]
    ELSE LET j == Head(pairs)[1]
             i == Head(pairs)[2]
             at == (j - 1) * rank + i
             stat == tensordot_self(partitioned_grads[j], i)
         IN  IF at > Len(statistics)
             THEN [exc |-> "IndexError", statistics |-> statistics]
             ELSE LET updated == mul_add_(statistics[at], beta2, stat, w2)
                  IN  IF Raised(updated)
                      THEN [exc |-> updated.exc,
                            statistics |-> [statistics EXCEPT ![at] = Scale(beta2, @)]]
                      ELSE add_statistics_loop(
                               [statistics EXCEPT ![at] = updated.val],
                               partitioned_grads, Tail(pairs), beta2, w2, rank)

\* Mutant: w2 is 1 - beta2 also when beta2 is 1.
add_statistics_plain_w2(self, grad) ==
    IF self.statistics = <<>> THEN [exc |-> "", val |-> None, self |-> self]
    ELSE LET reshaped_grad == torch_reshape(grad, self.transformed_shape)
             partitioned_grads == partition(self.partitioner, reshaped_grad.val)
             w2 == RSub(ROne, self.beta2)
             rank == CountTrue(should_precondition_dims(self))
             done == add_statistics_loop(
                         self.statistics, partitioned_grads.val,
                         block_axis_pairs(Len(partitioned_grads.val), rank),
                         self.beta2, w2, rank)
         IN  IF Raised(reshaped_grad)
             THEN [exc |-> reshaped_grad.exc, val |-> None, self |-> self]
             ELSE IF Raised(partitioned_grads)
             THEN [exc |-> partitioned_grads.exc, val |-> None, self |-> self]
             ELSE [exc |-> done.exc, val |-> None,
                   self |-> [self EXCEPT !.statistics = done.statistics]]

\* PreConditioner.add_statistics: [exc, val, self], self the object after.
add_statistics(self, grad) ==
    IF self.statistics = <<>> THEN [exc |-> "", val |-> None, self |-> self]
    ELSE LET reshaped_grad == torch_reshape(grad, self.transformed_shape)
             partitioned_grads == partition(self.partitioner, reshaped_grad.val)
             w2 == IF self.beta2 = ROne THEN ROne ELSE RSub(ROne, self.beta2)
             rank == CountTrue(should_precondition_dims(self))
             done == add_statistics_loop(
                         self.statistics, partitioned_grads.val,
                         block_axis_pairs(Len(partitioned_grads.val), rank),
                         self.beta2, w2, rank)
         IN  IF Raised(reshaped_grad)
             THEN [exc |-> reshaped_grad.exc, val |-> None, self |-> self]
             ELSE IF Raised(partitioned_grads)
             THEN [exc |-> partitioned_grads.exc, val |-> None, self |-> self]
             ELSE [exc |-> done.exc, val |-> None,
                   self |-> [self EXCEPT !.statistics = done.statistics]]

\* The loop of compute_pre_conditioners from index i on.
RECURSIVE compute_pre_conditioners_loop(_, _, _, _)
compute_pre_conditioners_loop(self, exp, i, fl) ==
    IF i > Len(self.statistics) THEN [exc |-> "", val |-> None, self |-> self]
    ELSE LET power == compute_power(self.statistics[i], exp, self.matrix_eps, fl)
             mutated == [self EXCEPT !.statistics[i] = power.mat_g]
         IN  IF power.exc # ""
             THEN [exc |-> power.exc, val |-> None, self |-> mutated]
             ELSE IF i > Len(self.pre_conditioners)
             THEN [exc |-> "IndexError", val |-> None, self |-> mutated]
             ELSE compute_pre_conditioners_loop(
                      [mutated EXCEPT !.pre_conditioners[i] = power.val],
                      exp, i + 1, fl)

\* PreConditioner.compute_pre_conditioners
compute_pre_conditioners(self, fl) ==
    compute_pre_conditioners_loop(self, exponent_for_pre_conditioner(self), 1, fl)

\* The numbers compute_pre_conditioners draws from the global generator:
\* torch.rand(n) in power_iter, for every n x n statistics matrix with n > 1
\* that compute_power is called on before the loop ends or raises.
numbers_drawn(self, fl) ==
    LET big == {k \in 1..Len(self.statistics) : self.statistics[k].shape[1] > 1}
        first == CHOOSE k \in big : \A m \in big : k <= m
        raises == fl.entered /\ matrix_power_exc(exponent_for_pre_conditioner(self)) # ""
    IN  IF big = {} THEN 0
        ELSE IF raises THEN self.statistics[first].shape[1]
        ELSE SumSeq([k \in 1..Len(self.statistics) |->
                        IF k \in big THEN self.statistics[k].shape[1] ELSE 0])

\* The loop of precondition_block from axis j on.
RECURSIVE precondition_block_loop(_, _, _, _)
precondition_block_loop(partitioned_grad, should_preconditioned_dims, pre_conditioners_for_grad, j) ==
    IF j > Len(should_preconditioned_dims) THEN Ok(partitioned_grad)
    ELSE IF ~should_preconditioned_dims[j]
    THEN precondition_block_loop(permute_roll(partitioned_grad),
             should_preconditioned_dims, pre_conditioners_for_grad, j + 1)
    ELSE IF j > Len(pre_conditioners_for_grad) THEN Raise("IndexError")
    ELSE LET contracted == tensordot_first(partitioned_grad,
                                           pre_conditioners_for_grad[j])
         IN  IF Raised(contracted) THEN contracted
             ELSE precondition_block_loop(contracted.val,
                      should_preconditioned_dims, pre_conditioners_for_grad, j + 1)

\* Mutant: an axis that is not preconditioned is left where it is.
precondition_block_no_roll(partitioned_grad, should_preconditioned_dims, pre_conditioners_for_grad) ==
    precondition_block_loop(partitioned_grad,
        SelectSeq(should_preconditioned_dims, LAMBDA b : b),
        pre_conditioners_for_grad, 1)

\* PreConditioner.precondition_block
precondition_block(partitioned_grad, should_preconditioned_dims, pre_conditioners_for_grad) ==
    precondition_block_loop(partitioned_grad, should_preconditioned_dims,
                            pre_conditioners_for_grad, 1)

\* lst[lo:hi] of Python, for 0 <= lo <= hi.
Slice(lst, lo, hi) == SubSeq(lst, Min(lo, Len(lst)) + 1, Min(hi, Len(lst)))

\* PreConditioner.preconditioned_grad
preconditioned_grad(self, grad) ==
    IF self.pre_conditioners = <<>> THEN Ok(grad)
    ELSE LET reshaped_grad == torch_reshape(grad, self.transformed_shape)
             partitioned_grads == partition(self.partitioner, reshaped_grad.val)
             dims == should_precondition_dims(self)
             num_pre_conditioners == CountTrue(dims)
             pre_cond_partitioned_grads ==
                 [i \in 1..Len(partitioned_grads.val) |->
                     precondition_block(
                         partitioned_grads.val[i], dims,
                         Slice(self.pre_conditioners,
                               (i - 1) * num_pre_conditioners,
                               i * num_pre_conditioners))]
             merged_grad ==
                 merge_partitions(self.partitioner,
                     [i \in 1..Len(pre_cond_partitioned_grads) |->
                         pre_cond_partitioned_grads[i].val])
         IN  IF Raised(reshaped_grad) THEN reshaped_grad
             ELSE IF Raised(partitioned_grads) THEN partitioned_grads
             ELSE IF \E i \in 1..Len(pre_cond_partitioned_grads) :
                         Raised(pre_cond_partitioned_grads[i])
             THEN LET first == CHOOSE i \in 1..Len(pre_cond_partitioned_grads) :
                                 /\ Raised(pre_cond_partitioned_grads[i])
                                 /\ \A k \in 1..(i - 1) :
                                        ~Raised(pre_cond_partitioned_grads[k])
                  IN  pre_cond_partitioned_grads[first]
             ELSE IF Raised(merged_grad) THEN merged_grad
             ELSE torch_reshape(merged_grad.val, self.original_shape)

(***************************************************************************)
(* Inputs.                                                                 *)
(***************************************************************************)
Shapes ==
    {s \in UNION {[1..r -> 1..MaxDim] : r \in 0..MaxRank} : Prod(s) <= MaxNumel}

BlockSizes == (-1)..MaxBlock

PreConditionerTypes == {ALL, INPUT, 2}

\* The tensor of shape s holding 1, 2, 3, ... in row-major order: all its
\* elements differ, so a misplaced element is always visible.
Iota(s) == [shape |-> s, data |-> [f \in 1..Prod(s) |-> R(f)]]

\* Shapes near s that differ from it.
OtherShapes(s) ==
    {Reverse(s), s \o <<1>>, <<Prod(s)>>, [k \in 1..Len(s) |-> s[k] + 1]} \ {s}

NoObject == [none |-> TRUE]
NoCall == [op |-> "init"]

(***************************************************************************)
(* SpecPartition: a BlockPartitioner and calls of partition and            *)
(* merge_partitions on it.                                                 *)
(***************************************************************************)
InitPartition ==
    /\ \E s \in Shapes, b \in BlockSizes, t \in PreConditionerTypes :
           /\ ctor = [shape |-> s, block_size |-> b, pre_conditioner_type |-> t]
           /\ partitioner = BlockPartitioner(s, b, t)
    /\ pre = NoObject
    /\ call = NoCall
    /\ ret = Ok(<<>>)
    /\ steps = 0
    /\ frame = NoObject
    /\ graft = NoObject
    /\ pre2 = NoObject
    /\ rng = 0
    /\ alone = NoObject
    /\ log = <<>>

Partition(x) ==
    /\ steps < MaxSteps
    /\ call' = [op |-> "partition", x |-> x]
    /\ ret' = partition(partitioner, x)
    /\ steps' = steps + 1
    /\ UNCHANGED <<ctor, partitioner, pre, frame, graft, pre2, rng, alone, log>>

\* merge_partitions applied to the blocks the last partition call returned.
MergePartitions ==
    /\ steps < MaxSteps
    /\ call.op = "partition"
    /\ ~Raised(ret)
    /\ call' = [op |-> "merge_partitions", x |-> call.x, partitions |-> ret.val]
    /\ ret' = merge_partitions(partitioner, ret.val)
    /\ steps' = steps + 1
    /\ UNCHANGED <<ctor, partitioner, pre, frame, graft, pre2, rng, alone, log>>

PartitionSame == Partition(Iota(partitioner.shape))

PartitionOther == \E s \in OtherShapes(partitioner.shape) : Partition(Iota(s))

NextPartition == PartitionSame \/ PartitionOther \/ MergePartitions

SpecPartition == InitPartition /\ [][NextPartition]_vars

(***************************************************************************)
(* Calls on a PreConditioner.  Gradients have the shape of the variable.   *)
(***************************************************************************)
MaxVarNumel == 8   \* variables of a PreConditioner have at most so many elements

VarShapes == {s \in Shapes : Prod(s) <= MaxVarNumel}

\* Two gradients of shape s, with entries in -1..1.
GradA(s) == [shape |-> s, data |-> [f \in 1..Prod(s) |-> R(((f * f + f \div 2) % 3) - 1)]]
GradB(s) == [shape |-> s, data |-> [f \in 1..Prod(s) |-> R(1 - ((f + f \div 3) % 2))]]

FloatOutcomes ==
    {fl \in [v : {"e1", "ones"}, q : {Rat(1, 2), ROne}, entered : BOOLEAN,
             accepted : 0..IterCount] : fl.accepted > 0 => fl.entered}

InitPre(shapes, blocks, types, overrides, merges, beta2s, epss) ==
    /\ \E s \in shapes, b \in blocks, t \in types, o \in overrides,
          m \in merges, b2 \in beta2s, e \in epss :
           /\ ctor = [shape |-> s, beta2 |-> b2, inverse_exponent_override |-> o,
                      block_size |-> b, shape_interpretation |-> m,
                      matrix_eps |-> e, pre_conditioner_type |-> t]
           /\ pre = PreConditioner(s, b2, o, b, m, e, t)
    /\ partitioner = NoObject
    /\ call = NoCall
    /\ ret = Ok(None)
    /\ steps = 0
    /\ frame = NoObject
    /\ graft = NoObject
    /\ pre2 = NoObject
    /\ rng = 0
    /\ alone = NoObject
    /\ log = <<>>

\* add_statistics(grad)
AddStatistics(grad) ==
    LET r == add_statistics(pre, grad)
    IN  /\ steps < MaxSteps
        /\ call' = [op |-> "add_statistics", grad |-> grad]
        /\ pre' = r.self
        /\ ret' = [exc |-> r.exc, val |-> r.val]
        /\ steps' = steps + 1
        /\ UNCHANGED <<ctor, partitioner, frame, graft, pre2, rng, alone, log>>

\* compute_pre_conditioners(): every power_iter it reaches draws its start
\* vector from the global generator.
ComputePreConditioners(fl) ==
    LET r == compute_pre_conditioners(pre, fl)
    IN  /\ steps < MaxSteps
        /\ call' = [op |-> "compute_pre_conditioners", fl |-> fl]
        /\ pre' = r.self
        /\ ret' = [exc |-> r.exc, val |-> r.val]
        /\ steps' = steps + 1
        /\ rng' = rng + numbers_drawn(pre, fl)
        /\ UNCHANGED <<ctor, partitioner, frame, graft, pre2, alone, log>>

\* preconditioned_grad(grad): no field of the object is assigned.
PreconditionedGrad(grad) ==
    /\ call.op # "preconditioned_grad"
    /\ call' = [op |-> "preconditioned_grad", grad |-> grad]
    /\ ret' = preconditioned_grad(pre, grad)
    /\ UNCHANGED <<ctor, partitioner, pre, steps, frame, graft, pre2, rng, alone, log>>

(***************************************************************************)
(* Spec: every variable shape, block size and dimension-merge setting,     *)
(* both preconditioner types, one decay rate and one epsilon.              *)
(***************************************************************************)
Init ==
    InitPre(VarShapes, 0..MaxBlock, {ALL, INPUT}, {0}, BOOLEAN,
            {Rat(1, 2)}, {Rat(1, 2)})

Next ==
    \/ AddStatistics(GradA(pre.original_shape))
    \/ \E fl \in {f \in FloatOutcomes : f.v = "ones" /\ f.q = ROne /\ f.entered} :
           ComputePreConditioners(fl)
    \/ PreconditionedGrad(GradB(pre.original_shape))

Spec == Init /\ [][Next]_vars

(***************************************************************************)
(* SpecStats: variables whose axes are all longer than 1, with every decay *)
(* rate and epsilon and two exponent overrides.                            *)
(***************************************************************************)
InitStats ==
    InitPre({s \in VarShapes : Len(s) >= 2 /\ \A k \in 1..Len(s) : s[k] >= 2},
            1..MaxBlock, {ALL, INPUT}, {0, 12}, {FALSE},
            {RZero, Rat(1, 2), ROne}, {RZero, Rat(1, 2)})

NextStats ==
    \/ \E grad \in {GradA(pre.original_shape), GradB(pre.original_shape)} :
           AddStatistics(grad)
    \/ \E fl \in {f \in FloatOutcomes : f.q # ROne /\ f.accepted = 0} :
           ComputePreConditioners(fl)
    \/ PreconditionedGrad(GradA(pre.original_shape))

SpecStats == InitStats /\ [][NextStats]_vars

(***************************************************************************)
(* SpecExponent: should_precondition_dims and exponent_for_pre_conditioner *)
(* on PreConditioners of every shape, type and override.                   *)
(***************************************************************************)
InitExponent ==
    InitPre(Shapes, 0..MaxBlock, PreConditionerTypes, (-1)..MaxOverride,
            BOOLEAN, {ROne}, {RZero})

ShouldPreconditionDims ==
    /\ steps = 0
    /\ call' = [op |-> "should_precondition_dims"]
    /\ ret' = Ok(should_precondition_dims(pre))
    /\ steps' = 1
    /\ UNCHANGED <<ctor, partitioner, pre, frame, graft, pre2, rng, alone, log>>

ExponentForPreConditioner ==
    /\ steps = 0
    /\ call' = [op |-> "exponent_for_pre_conditioner"]
    /\ ret' = Ok(exponent_for_pre_conditioner(pre))
    /\ steps' = 1
    /\ UNCHANGED <<ctor, partitioner, pre, frame, graft, pre2, rng, alone, log>>

NextExponent == ShouldPreconditionDims \/ ExponentForPreConditioner

SpecExponent == InitExponent /\ [][NextExponent]_vars

(***************************************************************************)
(* SpecPower: calls of matrix_power on small square matrices.              *)
(***************************************************************************)
MaxP == 17         \* exponents range over -1..MaxP
MaxEntry == 1      \* matrix entries range over -MaxEntry..MaxEntry
Sides == {1, 2}    \* matrices have 1 or 2 rows and columns

SquareMatrices ==
    UNION {{[shape |-> <<n, n>>, data |-> [f \in 1..(n * n) |-> R(d[f])]] :
                d \in [1..(n * n) -> (-MaxEntry)..MaxEntry]} : n \in Sides}

InitPower ==
    /\ ctor = NoObject
    /\ partitioner = NoObject
    /\ pre = NoObject
    /\ call = NoCall
    /\ ret = Ok(<<>>)
    /\ steps = 0
    /\ frame = NoObject
    /\ graft = NoObject
    /\ pre2 = NoObject
    /\ rng = 0
    /\ alone = NoObject
    /\ log = <<>>

\* call.mat_m is the argument as it is after the call: nothing assigns to it.
MatrixPower ==
    \E m \in SquareMatrices, p \in (-1)..MaxP :
        /\ steps = 0
        /\ call' = [op |-> "matrix_power", mat_m |-> m, p |-> p,
                    matmuls |-> matrix_power_matmuls(p)]
        /\ ret' = matrix_power(m, p)
        /\ steps' = 1
        /\ UNCHANGED <<ctor, partitioner, pre, frame, graft, pre2, rng, alone, log>>

NextPower == MatrixPower

SpecPower == InitPower /\ [][NextPower]_vars

(***************************************************************************)
(* SpecRoot: calls of compute_power and of power_iter, followed statement   *)
(* by statement.                                                           *)
(***************************************************************************)
MaxIter == 3       \* iter_count ranges over 0..MaxIter
MaxRootP == 4      \* p ranges over 1..MaxRootP, and 12 (where matrix_power raises)

Diag(d) == Matrix(Len(d), Len(d), LAMBDA i, j : IF i = j THEN d[i] ELSE RZero)

Vector(d) == [shape |-> <<Len(d)>>, data |-> d]

RootMatrices ==
    {Vector(<<R(4)>>), Vector(<<R(1), R(4)>>), Vector(<<Rat(1, 2), Rat(7, 2)>>),
     Diag(<<R(1)>>), Diag(<<R(2)>>), Diag(<<R(4)>>),
     Diag(<<R(3), R(4)>>), Diag(<<R(-3), R(4)>>),
     Matrix(2, 2, LAMBDA i, j : R(i * j)),
     Diag(<<R(1), R(1), R(1), R(1)>>),
     Diag(<<Rat(3, 4), Rat(3, 4), Rat(3, 4), Rat(3, 4)>>),
     Diag(<<Rat(5, 4), Rat(5, 4), Rat(5, 4), Rat(5, 4)>>),
     Diag(<<Rat(13, 4), Rat(13, 4), Rat(13, 4), Rat(13, 4)>>)}

\* The calls whose norm and roots are rational numbers.
ExactCall(c) ==
    IF Len(c.mat_g.shape) = 1
    THEN \A f \in DOMAIN c.mat_g.data : HasRoot(RAdd(c.mat_g.data[f], c.ridge_epsilon), c.p)
    ELSE IF c.mat_g.shape[1] = 1 THEN TRUE
    ELSE LET mat_g == ridged_mat_g(c.mat_g, c.ridge_epsilon, c.v)
         IN  /\ HasRoot(SumOfSquares(mat_g), 2)
             /\ HasRoot(scale_z(mat_g, c.p), c.p)

RootCalls ==
    {c \in [op : {"compute_power"}, mat_g : RootMatrices, p : (1..MaxRootP) \cup {12},
            iter_count : 0..MaxIter, error_tolerance : {Rat(1, 100), Rat(1, 4)},
            ridge_epsilon : {RZero, Rat(1, 2)}, v : {"e1", "ones"}] : ExactCall(c)}

\* compute_power(mat_g, p, iter_count, error_tolerance, ridge_epsilon) is called.
ComputePowerCall ==
    \E c \in RootCalls :
        /\ steps = 0
        /\ call' = c
        /\ frame' = compute_power_frame(c.mat_g)
        /\ steps' = 1
        /\ UNCHANGED <<ctor, partitioner, pre, ret, graft, pre2, rng, alone, log>>

\* The statements before the loop, with their two early returns.
ComputePowerEnter ==
    /\ frame # NoObject /\ frame.pc = "call"
    /\ call.op = "compute_power"
    /\ frame' = compute_power_setup(frame, call.p, call.ridge_epsilon, call.v)
    /\ ret' = IF frame'.pc = "done" THEN Ok(frame'.mat_root) ELSE ret
    /\ UNCHANGED <<ctor, partitioner, pre, call, steps, graft, pre2, rng, alone, log>>

\* The loop test holds: one pass through the body.
ComputePowerIterate ==
    /\ frame # NoObject /\ frame.pc = "while"
    /\ call.op = "compute_power"
    /\ loop_test(frame, call.iter_count, call.error_tolerance)
    /\ frame' = compute_power_iteration(frame, call.p)
    /\ ret' = IF frame'.pc = "raised" THEN Raise(frame'.exc) ELSE ret
    /\ UNCHANGED <<ctor, partitioner, pre, call, steps, graft, pre2, rng, alone, log>>

\* `return mat_root`, after the loop test fails or after the break.
ComputePowerReturn ==
    /\ frame # NoObject
    /\ call.op = "compute_power"
    /\ \/ frame.pc = "break"
       \/ frame.pc = "while" /\ ~loop_test(frame, call.iter_count, call.error_tolerance)
    /\ frame' = [frame EXCEPT !.pc = "done"]
    /\ ret' = Ok(frame.mat_root)
    /\ UNCHANGED <<ctor, partitioner, pre, call, steps, graft, pre2, rng, alone, log>>

\* The symmetric matrices of SquareMatrices.
SymmetricMatrices ==
    {m \in SquareMatrices :
        \A i, j \in 1..m.shape[1] : Entry(m, i, j) = Entry(m, j, i)}

\* The vectors that torch.rand(n) * 2 - 1 can give, as directions.
StartVectors(n) == [1..n -> {RZero, Rat(1, 2)}] \ {[i \in 1..n |-> RZero]}

PowerIterCalls ==
    UNION {[op : {"power_iter"}, mat_g : {m}, v : StartVectors(m.shape[1]),
            error_tolerance : {Rat(1, 100), Rat(1, 4)}, num_iters : 0..MaxIter] :
              m \in SymmetricMatrices}

\* power_iter(mat_g, error_tolerance, num_iters) is called and draws v.
PowerIterCall ==
    \E c \in PowerIterCalls :
        /\ steps = 0
        /\ call' = c
        /\ frame' = power_iter_frame(c.mat_g, c.v)
        /\ steps' = 1
        /\ rng' = rng + c.mat_g.shape[1]
        /\ UNCHANGED <<ctor, partitioner, pre, ret, graft, pre2, alone, log>>

\* The loop test holds: one pass through the body.
PowerIterIterate ==
    /\ frame # NoObject /\ frame.pc = "while"
    /\ call.op = "power_iter"
    /\ power_iter_test(frame, call.error_tolerance, call.num_iters)
    /\ frame' = power_iter_iteration(frame)
    /\ UNCHANGED <<ctor, partitioner, pre, call, ret, steps, graft, pre2, rng, alone, log>>

\* `return singular_val, v / torch.norm(v), iters`
PowerIterReturn ==
    /\ frame # NoObject /\ frame.pc = "while"
    /\ call.op = "power_iter"
    /\ ~power_iter_test(frame, call.error_tolerance, call.num_iters)
    /\ frame' = [frame EXCEPT !.pc = "done"]
    /\ ret' = Ok(<<frame.singular_val, frame.v, frame.iters>>)
    /\ UNCHANGED <<ctor, partitioner, pre, call, steps, graft, pre2, rng, alone, log>>

NextRoot ==
    \/ ComputePowerCall
    \/ ComputePowerEnter
    \/ ComputePowerIterate
    \/ ComputePowerReturn
    \/ PowerIterCall
    \/ PowerIterIterate
    \/ PowerIterReturn

SpecRoot == InitPower /\ [][NextRoot]_vars

\* The steps of a running call.
RunOn ==
    \/ ComputePowerEnter
    \/ ComputePowerIterate
    \/ ComputePowerReturn
    \/ PowerIterIterate
    \/ PowerIterReturn

\* No call is running: none was made, or the call has returned or raised.
Stopped == frame = NoObject \/ frame.pc \in {"done", "raised"}

\* A running call goes on running: weak fairness of RunOn, written out.
\* RunOn is enabled exactly when a call is running, so Stopped is the
\* negation of ENABLED <<RunOn>>_vars.
SpecRootFair == SpecRoot /\ ([]<>Stopped \/ []<><<RunOn>>_vars)


(***************************************************************************)
(* The grafts: Graft, SGDGraft, SQRTNGraft, AdagradGraft, RMSPropGraft.    *)
(*                                                                         *)
(* A graft object is a record of its class and its attributes.  The        *)
(* methods return [self, val]: the object after the call and the value     *)
(* returned.  An element of a tensor is a rational number or one of the    *)
(* strings "inf", "-inf", "nan" that a division by zero gives.             *)
(***************************************************************************)
MaxCalls == 3      \* calls made on a graft

Elementwise(t, F(_)) == [t EXCEPT !.data = [f \in DOMAIN t.data |-> F(t.data[f])]]

Elementwise2(t, u, F(_, _)) ==
    [t EXCEPT !.data = [f \in DOMAIN t.data |-> F(t.data[f], u.data[f])]]

torch_zeros_like(t) == Elementwise(t, LAMBDA x : RZero)

torch_ones_like(t) == Elementwise(t, LAMBDA x : ROne)

\* torch.sign, element by element
Sign(x) == IF x[1] > 0 THEN ROne ELSE IF x[1] < 0 THEN R(-1) ELSE RZero

\* a / b in floating point, for b >= 0
FloatDiv(a, b) ==
    IF b # RZero THEN RDiv(a, b)
    ELSE IF a = RZero THEN "nan"
    ELSE IF a[1] > 0 THEN "inf" ELSE "-inf"

\* torch.sqrt, where the root is a rational number
Sqrt(x) == IF x = RZero THEN RZero ELSE RRoot(x, 2)
HasSqrt(x) == x = RZero \/ HasRoot(x, 2)

HasMomentum(self) == self.class \in {"SGDGraft", "AdagradGraft", "RMSPropGraft"}
HasStatistics(self) == self.class \in {"AdagradGraft", "RMSPropGraft"}

\* Graft(var), SGDGraft(var), SQRTNGraft(var)
NewGraft(class, var) ==
    IF class = "SGDGraft"
    THEN [class |-> class, momentum |-> torch_zeros_like(var)]
    ELSE [class |-> class]

\* AdagradGraft(var, diagonal_eps), RMSPropGraft(var, diagonal_eps)
NewDiagonalGraft(class, var, diagonal_eps) ==
    [class |-> class, momentum |-> torch_zeros_like(var),
     diagonal_eps |-> diagonal_eps, statistics |-> torch_zeros_like(var)]

\* Mutant: the Adagrad accumulator decays like the RMSProp one.
graft_add_statistics_decayed(self, grad, beta2) ==
    IF HasStatistics(self)
    THEN [self |-> [self EXCEPT !.statistics =
                       Elementwise2(self.statistics, grad,
                           LAMBDA s_, g : RAdd(RMul(beta2, s_),
                                               RMul(RSub(ROne, beta2), RMul(g, g))))],
          val |-> None]
    ELSE [self |-> self, val |-> None]

\* graft.add_statistics(grad, beta2)
graft_add_statistics(self, grad, beta2) ==
    IF self.class = "AdagradGraft"
    THEN [self |-> [self EXCEPT !.statistics =
                       Elementwise2(self.statistics, grad,
                           LAMBDA s_, g : RAdd(s_, RMul(g, g)))],
          val |-> None]
    ELSE IF self.class = "RMSPropGraft"
    THEN [self |-> [self EXCEPT !.statistics =
                       Elementwise2(self.statistics, grad,
                           LAMBDA s_, g : RAdd(RMul(beta2, s_),
                                               RMul(RSub(ROne, beta2), RMul(g, g))))],
          val |-> None]
    ELSE [self |-> self, val |-> None]

\* Mutant: the sign of a zero element is taken to be 1.
precondition_gradient_unit(self, grad) ==
    IF self.class = "SQRTNGraft"
    THEN [self |-> self,
          val |-> Elementwise(grad, LAMBDA g : IF g[1] < 0 THEN R(-1) ELSE ROne)]
    ELSE IF HasStatistics(self)
    THEN [self |-> self,
          val |-> Elementwise2(grad, self.statistics,
                      LAMBDA g, s_ : FloatDiv(g, RAdd(Sqrt(s_), self.diagonal_eps)))]
    ELSE [self |-> self, val |-> grad]

\* graft.precondition_gradient(grad)
precondition_gradient(self, grad) ==
    IF self.class = "SQRTNGraft"
    THEN [self |-> self,
          val |-> Elementwise2(torch_ones_like(grad), Elementwise(grad, Sign), RMul)]
    ELSE IF HasStatistics(self)
    THEN [self |-> self,
          val |-> Elementwise2(grad, self.statistics,
                      LAMBDA g, s_ : FloatDiv(g, RAdd(Sqrt(s_), self.diagonal_eps)))]
    ELSE [self |-> self, val |-> grad]

\* Mutant: the update is added before the buffer is scaled.
update_momentum_scaled_sum(self, update, beta1) ==
    IF HasMomentum(self)
    THEN LET momentum == Elementwise2(self.momentum, update,
                             LAMBDA m, u : RMul(beta1, RAdd(m, u)))
         IN  [self |-> [self EXCEPT !.momentum = momentum], val |-> momentum]
    ELSE [self |-> self, val |-> update]

\* graft.update_momentum(update, beta1)
update_momentum(self, update, beta1) ==
    IF HasMomentum(self)
    THEN LET momentum == Elementwise2(self.momentum, update,
                             LAMBDA m, u : RAdd(RMul(beta1, m), u))
         IN  [self |-> [self EXCEPT !.momentum = momentum], val |-> momentum]
    ELSE [self |-> self, val |-> update]

(***************************************************************************)
(* SpecGraft: one graft on a variable of two elements, and up to MaxCalls  *)
(* calls of its three methods.  precondition_gradient is followed where    *)
(* the square roots of the statistics are rational numbers.                *)
(***************************************************************************)
GraftVar == Vector(<<R(1), R(-2)>>)

GraftGrads == {Vector(<<R(-3), R(0)>>), Vector(<<R(4), R(3)>>)}

Beta1s == {Rat(1, 2), Rat(1, 4)}

Beta2s == {RZero, Rat(1, 2)}

DiagonalEps == {RZero, Rat(1, 2)}

Grafts ==
    {NewGraft(c, GraftVar) : c \in {"Graft", "SGDGraft", "SQRTNGraft"}}
        \cup {NewDiagonalGraft(c, GraftVar, e) :
                c \in {"AdagradGraft", "RMSPropGraft"}, e \in DiagonalEps}

InitGraft ==
    /\ ctor = NoObject
    /\ partitioner = NoObject
    /\ pre = NoObject
    /\ call = NoCall
    /\ ret = Ok(None)
    /\ steps = 0
    /\ frame = NoObject
    /\ graft \in Grafts
    /\ pre2 = NoObject
    /\ rng = 0
    /\ alone = NoObject
    /\ log = <<>>

GraftAddStatistics ==
    \E grad \in GraftGrads, beta2 \in Beta2s :
        LET r == graft_add_statistics(graft, grad, beta2)
        IN  /\ steps < MaxCalls
            /\ call' = [op |-> "add_statistics", grad |-> grad, beta2 |-> beta2]
            /\ graft' = r.self
            /\ ret' = Ok(r.val)
            /\ steps' = steps + 1
            /\ log' = Append(log, call')
            /\ UNCHANGED <<ctor, partitioner, pre, frame, pre2, rng, alone>>

GraftPreconditionGradient ==
    \E grad \in GraftGrads :
        LET r == precondition_gradient(graft, grad)
        IN  /\ steps < MaxCalls
            /\ HasStatistics(graft)
                  => \A f \in DOMAIN graft.statistics.data :
                        HasSqrt(graft.statistics.data[f])
            /\ call' = [op |-> "precondition_gradient", grad |-> grad]
            /\ graft' = r.self
            /\ ret' = Ok(r.val)
            /\ steps' = steps + 1
            /\ log' = Append(log, call')
            /\ UNCHANGED <<ctor, partitioner, pre, frame, pre2, rng, alone>>

\* beta1 is the same in every call made on one graft.
GraftUpdateMomentum ==
    \E update \in GraftGrads, beta1 \in Beta1s :
        LET r == update_momentum(graft, update, beta1)
        IN  /\ steps < MaxCalls
            /\ \A k \in DOMAIN log : log[k].op = "update_momentum" => log[k].beta1 = beta1
            /\ call' = [op |-> "update_momentum", update |-> update, beta1 |-> beta1]
            /\ graft' = r.self
            /\ ret' = Ok(r.val)
            /\ steps' = steps + 1
            /\ log' = Append(log, call')
            /\ UNCHANGED <<ctor, partitioner, pre, frame, pre2, rng, alone>>

NextGraft ==
    \/ GraftAddStatistics
    \/ GraftPreconditionGradient
    \/ GraftUpdateMomentum

SpecGraft == InitGraft /\ [][NextGraft]_vars

(***************************************************************************)
(* SpecTwo: two PreConditioners, of two variables, in one process.         *)
(*                                                                         *)
(* torch.rand in power_iter draws from the global generator of the         *)
(* process.  The generator is a stream fixed by its seed (ctor.stream);    *)
(* rng is its position.  The start vector that power_iter draws is the     *)
(* outcome the stream holds at the position of the draw.  alone[i] is      *)
(* instance i as its own calls leave it in a process where no other        *)
(* instance runs: the same calls in the same order, on the same stream     *)
(* from position 0.                                                        *)
(***************************************************************************)
MaxInterleaved == 4    \* calls made on the two instances together
StreamLen == 4         \* the outcome at a position repeats after StreamLen

\* The start vector drawn at position pos.
drawn(stream, pos) == stream[(pos % StreamLen) + 1]

\* The loop of compute_pre_conditioners from index i on, drawing from the
\* stream at position pos: [exc, val, self, rng].
RECURSIVE compute_pre_conditioners_drawing(_, _, _, _, _)
compute_pre_conditioners_drawing(self, exp, i, stream, pos) ==
    IF i > Len(self.statistics)
    THEN [exc |-> "", val |-> None, self |-> self, rng |-> pos]
    ELSE LET n == self.statistics[i].shape[1]
             fl == [v |-> drawn(stream, pos), q |-> ROne, entered |-> TRUE,
                    accepted |-> 1]
             after == IF n > 1 THEN pos + n ELSE pos
             power == compute_power(self.statistics[i], exp, self.matrix_eps, fl)
             mutated == [self EXCEPT !.statistics[i] = power.mat_g]
         IN  IF power.exc # ""
             THEN [exc |-> power.exc, val |-> None, self |-> mutated, rng |-> after]
             ELSE IF i > Len(self.pre_conditioners)
             THEN [exc |-> "IndexError", val |-> None, self |-> mutated, rng |-> after]
             ELSE compute_pre_conditioners_drawing(
                      [mutated EXCEPT !.pre_conditioners[i] = power.val],
                      exp, i + 1, stream, after)

Instances == {1, 2}

Instance(i) == IF i = 1 THEN pre ELSE pre2

InitTwo ==
    /\ \E stream \in [1..StreamLen -> {"e1", "ones"}], e \in {RZero, Rat(1, 2)} :
          /\ ctor = [stream |-> stream, beta2 |-> Rat(1, 2),
                     inverse_exponent_override |-> 0, block_size |-> 0,
                     shape_interpretation |-> FALSE, matrix_eps |-> e,
                     pre_conditioner_type |-> ALL]
          /\ pre = PreConditioner(<<2, 2>>, Rat(1, 2), 0, 0, FALSE, e, ALL)
          /\ pre2 = PreConditioner(<<2, 3>>, Rat(1, 2), 0, 0, FALSE, e, ALL)
    /\ alone = <<[self |-> pre, rng |-> 0], [self |-> pre2, rng |-> 0]>>
    /\ partitioner = NoObject
    /\ call = NoCall
    /\ ret = Ok(None)
    /\ steps = 0
    /\ frame = NoObject
    /\ graft = NoObject
    /\ rng = 0
    /\ log = <<>>

\* The step of instance i to object self; the other instance is not touched.
Touch(i, self) ==
    /\ pre' = IF i = 1 THEN self ELSE pre
    /\ pre2' = IF i = 2 THEN self ELSE pre2

\* add_statistics(grad) on instance i
TwoAddStatistics ==
    \E i \in Instances :
        LET grad == GradA(Instance(i).original_shape)
            r == add_statistics(Instance(i), grad)
        IN  /\ steps < MaxInterleaved
            /\ call' = [op |-> "add_statistics", instance |-> i, grad |-> grad]
            /\ Touch(i, r.self)
            /\ ret' = [exc |-> r.exc, val |-> r.val]
            /\ alone' = [alone EXCEPT ![i].self = add_statistics(@, grad).self]
            /\ steps' = steps + 1
            /\ UNCHANGED <<ctor, partitioner, frame, graft, rng, log>>

\* compute_pre_conditioners() on instance i
TwoComputePreConditioners ==
    \E i \in Instances :
        LET self == Instance(i)
            r == compute_pre_conditioners_drawing(
                     self, exponent_for_pre_conditioner(self), 1, ctor.stream, rng)
            a == compute_pre_conditioners_drawing(
                     alone[i].self, exponent_for_pre_conditioner(alone[i].self), 1,
                     ctor.stream, alone[i].rng)
        IN  /\ steps < MaxInterleaved
            /\ call' = [op |-> "compute_pre_conditioners", instance |-> i]
            /\ Touch(i, r.self)
            /\ ret' = [exc |-> r.exc, val |-> r.val]
            /\ rng' = r.rng
            /\ alone' = [alone EXCEPT ![i] = [self |-> a.self, rng |-> a.rng]]
            /\ steps' = steps + 1
            /\ UNCHANGED <<ctor, partitioner, frame, graft, log>>

\* preconditioned_grad(grad) on instance i
TwoPreconditionedGrad ==
    \E i \in Instances :
        LET grad == GradB(Instance(i).original_shape)
        IN  /\ steps < MaxInterleaved
            /\ call' = [op |-> "preconditioned_grad", instance |-> i, grad |-> grad]
            /\ ret' = preconditioned_grad(Instance(i), grad)
            /\ steps' = steps + 1
            /\ UNCHANGED <<ctor, partitioner, pre, pre2, frame, graft, rng, alone, log>>

NextTwo ==
    \/ TwoAddStatistics
    \/ TwoComputePreConditioners
    \/ TwoPreconditionedGrad

SpecTwo == InitTwo /\ [][NextTwo]_vars

(***************************************************************************)
(* SpecMerge: calls of merge_small_dims.                                   *)
(***************************************************************************)
MaxMergeRank == 4      \* shapes have 0..MaxMergeRank axes
MaxMergeLen == 3       \* of length 1..MaxMergeLen each
MaxMaxDim == 9         \* max_dim ranges over -1..MaxMaxDim

MergeShapes == UNION {[1..r -> 1..MaxMergeLen] : r \in 0..MaxMergeRank}

MergeSmallDims ==
    \E shape_to_merge \in MergeShapes, max_dim \in (-1)..MaxMaxDim :
        /\ steps = 0
        /\ call' = [op |-> "merge_small_dims", shape_to_merge |-> shape_to_merge,
                    max_dim |-> max_dim]
        /\ ret' = Ok(merge_small_dims(shape_to_merge, max_dim))
        /\ steps' = 1
        /\ UNCHANGED <<ctor, partitioner, pre, frame, graft, pre2, rng, alone, log>>

NextMerge == MergeSmallDims

SpecMerge == InitPower /\ [][NextMerge]_vars

(***************************************************************************)
(* Properties of the block partitioner (SpecPartition).                    *)
(***************************************************************************)
Last(s) == s[Len(s)]

\* C1: merge_partitions(partition(T)) is T, shape and elements, whatever the
\* shape and block_size: no axis split, equal blocks, a smaller remainder
\* block, several split axes.
C1_RoundTrip ==
    call.op = "merge_partitions" => ret = Ok(call.x)

\* A round trip over two split axes, one of them with a remainder block.
C1_Witness ==
    /\ call.op = "merge_partitions"
    /\ ret = Ok(call.x)
    /\ Len(partitioner.split_sizes) >= 2
    /\ \E k \in 1..Len(partitioner.split_sizes) :
           Last(partitioner.split_sizes[k][2]) < partitioner.split_sizes[k][2][1]

\* The entries of the plan for axis i.
PlanEntries(plan, i) == {k \in 1..Len(plan) : plan[k][1] = i}

\* C4: for block_size > 0 every block is between 1 and block_size long
\* along every axis; along a split axis the block lengths add up to the axis
\* length and all but the last are block_size; an axis no longer than
\* block_size is not split.
C4_PartitionPlan ==
    ctor.block_size > 0 =>
        LET bs == ctor.block_size
            shape == ctor.shape
        IN  /\ \A i \in 1..Len(shape) :
                   IF shape[i] <= bs
                   THEN /\ PlanEntries(partitioner.split_sizes, i) = {}
                        /\ PlanEntries(partitioner.splits, i) = {}
                   ELSE /\ Cardinality(PlanEntries(partitioner.split_sizes, i)) = 1
                        /\ \A k \in PlanEntries(partitioner.split_sizes, i) :
                               LET sizes == partitioner.split_sizes[k][2]
                                   indices == partitioner.splits[k][2]
                               IN  /\ partitioner.splits[k][1] = i
                                   /\ Len(sizes) >= 2
                                   /\ SumSeq(sizes) = shape[i]
                                   /\ \A a \in 1..(Len(sizes) - 1) : sizes[a] = bs
                                   /\ Last(sizes) >= 1 /\ Last(sizes) <= bs
                                   /\ Len(indices) = Len(sizes) - 1
                                   /\ \A a \in 1..Len(indices) :
                                          indices[a] = SumSeq(Prefix(sizes, a))
            /\ (call.op = "partition" /\ ~Raised(ret)) =>
                   \A j \in 1..Len(ret.val) :
                       /\ Len(ret.val[j].shape) = Len(shape)
                       /\ \A i \in 1..Len(shape) :
                              /\ ret.val[j].shape[i] >= 1
                              /\ ret.val[j].shape[i] <= bs

\* Blocks of a plan with a split axis that has a remainder block and an axis
\* left whole.
C4_Witness ==
    /\ ctor.block_size > 0
    /\ call.op = "partition" /\ ~Raised(ret)
    /\ Len(ret.val) >= 2
    /\ Len(partitioner.split_sizes) = 1
    /\ Len(ctor.shape) >= 2
    /\ Last(partitioner.split_sizes[1][2]) < ctor.block_size

\* C5: partition(x) raises the shape-mismatch error whenever x's shape is not
\* the plan's, returns no blocks, and leaves the plan as it was.
C5_ShapeMismatch ==
    [][(call'.op = "partition" /\ call'.x.shape # partitioner.shape)
          => (ret' = Raise("ValueError") /\ partitioner' = partitioner)]_vars

\* A tensor with the plan's number of elements but another shape, refused by
\* a plan that splits.
C5_Witness ==
    /\ call.op = "partition"
    /\ call.x.shape # partitioner.shape
    /\ Prod(call.x.shape) = Prod(partitioner.shape)
    /\ partitioner.split_sizes # <<>>
    /\ ret = Raise("ValueError")

(***************************************************************************)
(* Properties of matrix_power (SpecPower).                                 *)
(***************************************************************************)
\* The p-fold product m * m * ... * m, for p >= 1.
RECURSIVE NaivePower(_, _)
NaivePower(m, p) ==
    IF p = 1 THEN m ELSE torch_matmul(NaivePower(m, p - 1), m)

RECURSIVE TwoTo(_)
TwoTo(k) == IF k = 0 THEN 1 ELSE 2 * TwoTo(k - 1)

\* C2: matrix_power(M, p) raises for every p outside {1, 2, 4, 8}.
C2_InvalidExponentRaises ==
    (call.op = "matrix_power" /\ call.p \notin {1, 2, 4, 8}) => Raised(ret)

\* C3: for p in {1, 2, 4, 8}, matrix_power(M, p) is the p-fold product of M,
\* reached with log2(p) matrix multiplications.
C3_PowerOfTwo ==
    (call.op = "matrix_power" /\ call.p \in {1, 2, 4, 8}) =>
        /\ ret = Ok(NaivePower(call.mat_m, call.p))
        /\ TwoTo(call.matmuls) = call.p

\* An eighth power that is neither M nor a matrix of zeros and ones.
C3_Witness ==
    /\ call.op = "matrix_power"
    /\ call.p = 8
    /\ ~Raised(ret)
    /\ call.matmuls = 3
    /\ ret.val # call.mat_m
    /\ \E f \in DOMAIN ret.val.data : ret.val.data[f][1] > 1

(***************************************************************************)
(* Properties of the PreConditioner (Spec, SpecStats, SpecExponent).       *)
(***************************************************************************)
\* The blocks partition() returns for a tensor of the transformed shape.
Blocks(self) == partition(self.partitioner, GradA(self.transformed_shape)).val

\* The number of preconditioned axes.
NumPreconditioned(self) == CountTrue(should_precondition_dims(self))

IsSquare(m, side) == m.shape = <<side, side>> /\ Len(m.data) = side * side

\* C6: with k preconditioned axes, statistics and pre_conditioners each hold
\* (number of blocks) * k square matrices; the blocks come in the row-major
\* order of the product of the per-axis splits, and the matrix at j * k + i
\* has as side the length of axis i of block j.  Initially and after any
\* calls of add_statistics, compute_pre_conditioners and preconditioned_grad.
C6_MatrixLayout ==
    Len(pre.transformed_shape) > 1 =>
        LET blocks == Blocks(pre)
            k == NumPreconditioned(pre)
            tuples == itertools_product(
                          axis_sizes(pre.transformed_shape, ctor.block_size))
        IN  /\ Len(pre.statistics) = Len(blocks) * k
            /\ Len(pre.pre_conditioners) = Len(blocks) * k
            /\ Len(tuples) = Len(blocks)
            /\ \A j \in 1..Len(blocks) :
                   /\ blocks[j].shape = tuples[j]
                   /\ \A i \in 1..k :
                          /\ IsSquare(pre.statistics[(j - 1) * k + i],
                                      blocks[j].shape[i])
                          /\ IsSquare(pre.pre_conditioners[(j - 1) * k + i],
                                      blocks[j].shape[i])

\* One-sided preconditioning of blocks of different shapes, after the
\* preconditioners were computed from accumulated statistics.
C6_Witness ==
    /\ Len(pre.transformed_shape) > 1
    /\ ctor.pre_conditioner_type = INPUT
    /\ call.op = "compute_pre_conditioners" /\ ~Raised(ret)
    /\ steps = MaxSteps
    /\ Len(pre.statistics) >= 2
    /\ \E a, b \in 1..Len(pre.statistics) :
           pre.statistics[a].shape # pre.statistics[b].shape
    /\ \E a \in 1..Len(pre.pre_conditioners) :
           pre.pre_conditioners[a] # torch_eye(pre.pre_conditioners[a].shape[1])

\* The contraction of block g with itself over every axis but i: entry (a, b)
\* adds up g[x] * g[y] over the positions x, y that have a and b on axis i
\* and agree on every other axis.
Contraction(g, i) ==
    LET d == g.shape[i]
        n == Prod(g.shape)
        pos(f) == Unravel(f - 1, g.shape)
        pairs(a, b) ==
            {xy \in (1..n) \X (1..n) :
                /\ pos(xy[1])[i] = a - 1
                /\ pos(xy[2])[i] = b - 1
                /\ \A m \in 1..Len(g.shape) :
                       m # i => pos(xy[1])[m] = pos(xy[2])[m]}
        RECURSIVE total(_)
        total(S) == IF S = {} THEN RZero
                    ELSE LET xy == CHOOSE e \in S : TRUE
                         IN  RAdd(RMul(g.data[xy[1]], g.data[xy[2]]),
                                  total(S \ {xy}))
    IN  [shape |-> <<d, d>>,
         data |-> [f \in 1..(d * d) |->
                      total(pairs(((f - 1) \div d) + 1, ((f - 1) % d) + 1))]]

\* The statistics one add_statistics(grad) call is to leave.
UpdatedStatistics(self, grad) ==
    LET blocks == partition(self.partitioner,
                            torch_reshape(grad, self.transformed_shape).val).val
        k == NumPreconditioned(self)
        w == IF self.beta2 = ROne THEN ROne ELSE RSub(ROne, self.beta2)
    IN  [at \in 1..Len(self.statistics) |->
            LET j == ((at - 1) \div k) + 1
                i == ((at - 1) % k) + 1
            IN  MatAdd(Scale(self.beta2, self.statistics[at]),
                       Scale(w, Contraction(blocks[j], i)))]

\* C7: when the transformed shape has more than one axis, add_statistics(grad)
\* replaces every statistics matrix S[j, i] by beta2 * S[j, i] + w * C, with C
\* the contraction of block j with itself over every axis but i and w = 1 if
\* beta2 = 1, else 1 - beta2; each matrix once, and nothing else changes.
C7_StatisticsUpdate ==
    [][(call'.op = "add_statistics" /\ Len(pre.transformed_shape) > 1)
          => /\ ret' = Ok(None)
             /\ pre' = [pre EXCEPT !.statistics = UpdatedStatistics(pre, call'.grad)]]_vars

\* A second update with decay 1/2 of several blocks, one of whose statistics
\* has an entry off the diagonal.
C7_Witness ==
    /\ call.op = "add_statistics"
    /\ steps = MaxSteps
    /\ Len(pre.transformed_shape) > 1
    /\ ctor.beta2 = Rat(1, 2)
    /\ Len(pre.statistics) > NumPreconditioned(pre)
    /\ \E a \in 1..Len(pre.statistics) :
           /\ pre.statistics[a].shape[1] >= 2
           /\ Entry(pre.statistics[a], 1, 2) # RZero

\* The determinant of the rows and columns idx (a sequence) of m, expanded
\* along the first of them.
RECURSIVE Minor(_, _, _)
Minor(m, rows, cols) ==
    IF rows = <<>> THEN ROne
    ELSE RSumSeq([c \in 1..Len(cols) |->
             RMul(IF c % 2 = 1 THEN ROne ELSE R(-1),
                  RMul(Entry(m, rows[1], cols[c]),
                       Minor(m, Tail(rows),
                             SubSeq(cols, 1, c - 1) \o SubSeq(cols, c + 1, Len(cols)))))])

\* The members of a set of numbers in increasing order.
RECURSIVE Sorted(_)
Sorted(S) ==
    IF S = {} THEN <<>>
    ELSE LET x == CHOOSE y \in S : \A z \in S : y <= z
         IN  <<x>> \o Sorted(S \ {x})

IsSymmetric(m) ==
    \A a, b \in 1..m.shape[1] : Entry(m, a, b) = Entry(m, b, a)

\* A symmetric matrix is positive semi-definite exactly when every principal
\* minor is non-negative.
IsPSD(m) ==
    \A I \in SUBSET (1..m.shape[1]) :
        RLe(RZero, Minor(m, Sorted(I), Sorted(I)))

\* C8: after construction and after any add_statistics calls (0 <= beta2 <= 1,
\* matrix_eps >= 0) every statistics matrix is its own transpose and positive
\* semi-definite.
C8_SymmetricPSD ==
    \A a \in 1..Len(pre.statistics) :
        IsSymmetric(pre.statistics[a]) /\ IsPSD(pre.statistics[a])

\* Two updates leave a statistics matrix that is not diagonal.
C8_Witness ==
    /\ call.op = "add_statistics"
    /\ steps = MaxSteps
    /\ \E a \in 1..Len(pre.statistics) :
           /\ pre.statistics[a].shape[1] >= 2
           /\ Entry(pre.statistics[a], 1, 2) # RZero
           /\ IsSymmetric(pre.statistics[a]) /\ IsPSD(pre.statistics[a])

\* C9: exponent_for_pre_conditioner is the override when that is positive,
\* else twice the number of True entries of should_precondition_dims, which
\* is all True for type ALL or rank <= 1 and has a False last entry for any
\* other type when rank > 1 (rank of the transformed shape).
C9_Exponent ==
    LET rank == Len(pre.transformed_shape)
        all == ctor.pre_conditioner_type = ALL \/ rank <= 1
    IN  /\ call.op = "should_precondition_dims" =>
               /\ ~Raised(ret)
               /\ Len(ret.val) = rank
               /\ \A k \in 1..rank : ret.val[k] = (all \/ k < rank)
        /\ call.op = "exponent_for_pre_conditioner" =>
               ret = Ok(IF ctor.inverse_exponent_override > 0
                        THEN ctor.inverse_exponent_override
                        ELSE IF all THEN 2 * rank ELSE 2 * (rank - 1))

\* No override, a type that is neither ALL nor INPUT, three axes: exponent 4.
C9_Witness ==
    /\ call.op = "exponent_for_pre_conditioner"
    /\ ctor.inverse_exponent_override < 0
    /\ ctor.pre_conditioner_type \notin {ALL, INPUT}
    /\ Len(pre.transformed_shape) = 3
    /\ ret = Ok(4)

\* C10: preconditioned_grad(grad) returns a tensor of the shape of grad,
\* whatever the shape, block_size, dimension merging and type: every block
\* leaves precondition_block with the axis order and lengths it came with.
C10_ShapePreserved ==
    /\ call.op = "preconditioned_grad" =>
           /\ ~Raised(ret)
           /\ ret.val.shape = call.grad.shape
           /\ Len(ret.val.data) = Len(call.grad.data)
    /\ Len(pre.transformed_shape) > 1 =>
           \A j \in 1..Len(Blocks(pre)) :
               LET k == NumPreconditioned(pre)
                   out == precondition_block(
                              Blocks(pre)[j], should_precondition_dims(pre),
                              Slice(pre.pre_conditioners, (j - 1) * k, j * k))
               IN  ~Raised(out) /\ out.val.shape = Blocks(pre)[j].shape

\* A merged, split, one-sided variable whose gradient comes back changed.
C10_Witness ==
    /\ call.op = "preconditioned_grad" /\ ~Raised(ret)
    /\ ctor.pre_conditioner_type = INPUT
    /\ ctor.shape_interpretation
    /\ pre.transformed_shape # pre.original_shape
    /\ Len(pre.transformed_shape) > 1
    /\ Len(Blocks(pre)) >= 2
    /\ ret.val.shape = call.grad.shape
    /\ ret.val # call.grad

\* C11: a PreConditioner whose transformed shape has at most one axis has
\* empty statistics and pre_conditioners; add_statistics and
\* compute_pre_conditioners change nothing of it, and preconditioned_grad(grad)
\* returns grad as it is.
C11_SingleAxisNoOp ==
    [][Len(pre.transformed_shape) <= 1
          => /\ pre.statistics = <<>>
             /\ pre.pre_conditioners = <<>>
             /\ pre' = pre
             /\ call'.op \in {"add_statistics", "compute_pre_conditioners"}
                    => ret' = Ok(None)
             /\ call'.op = "preconditioned_grad" => ret' = Ok(call'.grad)]_vars

\* A variable of two axes merged into one, after add_statistics and
\* compute_pre_conditioners, hands a gradient back.
C11_Witness ==
    /\ Len(ctor.shape) >= 2
    /\ ctor.shape_interpretation
    /\ Len(pre.transformed_shape) = 1
    /\ pre.transformed_shape[1] > 1
    /\ steps = MaxSteps
    /\ call.op = "preconditioned_grad"
    /\ ret = Ok(call.grad)
    /\ pre.statistics = <<>>


(***************************************************************************)
(* Properties of compute_power (SpecRoot).                                 *)
(***************************************************************************)
Running == frame # NoObject /\ call.op = "compute_power"

\* The pass that fr records was rejected by the divergence test.
Diverged(fr) ==
    /\ fr.new_error # None
    /\ RLess(RMul(fr.error, max_error_ratio), fr.new_error)

\* C12: when the deviation of the newly refined matrix from the identity
\* exceeds the previous deviation times max_error_ratio, the loop stops at
\* once, no exception is raised, and the matrix returned is the root estimate
\* held before that pass: the factor mat_m_i of the rejected pass is not
\* multiplied in.
C12_DivergenceKeepsRoot ==
    [][/\ (Running /\ frame.pc = "while" /\ frame' # frame /\ Diverged(frame'))
            => /\ frame'.pc = "break"
               /\ frame'.mat_root = frame.mat_root
               /\ frame'.count = frame.count
               /\ frame'.exc = ""
               /\ ~Raised(ret')
       /\ (Running /\ frame.pc = "break")
            => /\ frame'.pc = "done"
               /\ ret' = Ok(frame.mat_root)]_vars

C12_Witness ==
    /\ Running /\ frame.pc = "done" /\ Diverged(frame)
    /\ frame.count = 0
    /\ ret = Ok(Scale(RRoot(scale_z(frame.mat_g, call.p), call.p),
                      torch_eye(frame.mat_g.shape[1])))

\* C13: for a 1 x 1 matrix G, compute_power returns the closed form
\* (G + eps)^(-1/p): the one entry r of the result satisfies
\* r^p * (G + eps) = 1.
C13_OneByOneClosedForm ==
    (Running /\ frame.pc = "done" /\ call.mat_g.shape = <<1, 1>>)
        => /\ ~Raised(ret)
           /\ ret.val.shape = <<1, 1>>
           /\ RMul(RPow(ret.val.data[1], call.p),
                   RAdd(call.mat_g.data[1], call.ridge_epsilon)) = ROne

\* mat_g as it was passed is the identity matrix.
IsIdentity(m) == Len(m.shape) = 2 /\ m = torch_eye(m.shape[1])

\* C14: for p in {1, 2, 4, 8}, compute_power of the n x n identity matrix
\* (no ridge, and a cap of at least MaxIter passes, which is enough for the
\* coupled Newton iteration to reach either tolerance from the identity)
\* returns the identity matrix within error_tolerance.
C14_IdentityRoot ==
    (/\ Running /\ frame.pc = "done"
     /\ IsIdentity(call.mat_g) /\ call.p \in {1, 2, 4, 8}
     /\ call.ridge_epsilon = RZero /\ call.iter_count >= MaxIter)
        => /\ ~Raised(ret)
           /\ ~RLess(call.error_tolerance,
                     max_abs(MatSub(ret.val, torch_eye(call.mat_g.shape[1]))))

\* A step that is an accepted pass through the loop body.
AcceptedPass ==
    /\ Running /\ frame.pc = "while" /\ frame'.pc = "while"
    /\ frame'.count = frame.count + 1

\* C20: each accepted pass advances the running matrix mat_m to
\* mat_m_i^p * mat_m, so that at the next loop test the tracked error is the
\* largest absolute entry of mat_m - identity for the current mat_m, and the
\* next mat_m_i is computed from the advanced matrix.
C20_RunningMatrixAdvances ==
    [][AcceptedPass
          => /\ frame'.mat_m = torch_matmul(matrix_power(frame'.mat_m_i, call.p).val,
                                            frame.mat_m)
             /\ frame'.error = max_abs(MatSub(frame'.mat_m,
                                              torch_eye(frame.mat_g.shape[1])))]_vars

(***************************************************************************)
(* Termination of the two kernels (SpecRootFair).                          *)
(***************************************************************************)
InPowerIter == frame # NoObject /\ call.op = "power_iter"

\* The number of times the body of the loop of compute_power was entered.
Passes(fr) == fr.count + (IF fr.pc \in {"break", "raised"} \/ Diverged(fr) THEN 1 ELSE 0)

\* C15: both kernels terminate within their caps.  power_iter makes at most
\* num_iters passes, makes a pass only while the change of the quotient is
\* above the tolerance, returns as soon as it is not, and the count it returns
\* is in 0..num_iters.  compute_power makes at most iter_count passes, makes
\* a pass only while the tracked error is above the tolerance, and returns as
\* soon as it is not or a pass is rejected.  Every call comes to its end.
C15_KernelsTerminate ==
    /\ [](InPowerIter
            => /\ frame.iters \in 0..call.num_iters
               /\ frame.pc = "done" => ret = Ok(<<frame.singular_val, frame.v, frame.iters>>))
    /\ [](Running => Passes(frame) \in 0..call.iter_count)
    /\ [][/\ (InPowerIter /\ frame'.iters # frame.iters)
               => /\ frame'.iters = frame.iters + 1
                  /\ RLess(call.error_tolerance, frame.error)
          /\ (InPowerIter /\ frame.pc = "while" /\ ~RLess(call.error_tolerance, frame.error))
               => /\ frame'.pc = "done"
                  /\ ret'.val[3] = frame.iters
          /\ (Running /\ Passes(frame') # Passes(frame))
               => /\ Passes(frame') = Passes(frame) + 1
                  /\ RLess(call.error_tolerance, frame.error)
          /\ (Running /\ frame.pc = "while" /\ ~RLess(call.error_tolerance, frame.error))
               => /\ frame'.pc = "done"
                  /\ ret' = Ok(frame.mat_root)
          /\ (Running /\ frame.pc = "break") => frame'.pc = "done"]_vars
    /\ (frame # NoObject) ~> Stopped

\* power_iter stopped on the tolerance, before the cap.
C15_Witness ==
    /\ InPowerIter /\ frame.pc = "done"
    /\ frame.iters > 1 /\ frame.iters < call.num_iters
    /\ ~RLess(call.error_tolerance, frame.error)
    /\ ret.val[3] = frame.iters

(***************************************************************************)
(* Properties of the grafts (SpecGraft).                                   *)
(***************************************************************************)
\* The update_momentum calls made so far, oldest first.
Updates == SelectSeq(log, LAMBDA c : c.op = "update_momentum")

\* sum over k of beta1^(n - k) * u_k, for the n updates made so far
WeightedSum ==
    LET n == Len(Updates)
    IN  [GraftVar EXCEPT !.data =
            [f \in DOMAIN GraftVar.data |->
                RSumSeq([k \in 1..n |->
                    RMul(RPow(Updates[k].beta1, n - k), Updates[k].update.data[f])])]]

\* C16: in SGDGraft, AdagradGraft and RMSPropGraft the momentum buffer starts
\* at zero; update_momentum(update, beta1) sets it to beta1 * momentum + update
\* and returns it, so after the updates u_1..u_n it is the sum over k of
\* beta1^(n - k) * u_k; add_statistics and precondition_gradient leave it
\* alone; and precondition_gradient of SGDGraft returns the gradient as it is.
C16_Momentum ==
    /\ [](HasMomentum(graft) => graft.momentum = WeightedSum)
    /\ [][HasMomentum(graft)
            => /\ call'.op = "update_momentum"
                    => /\ graft'.momentum =
                            Elementwise2(graft.momentum, call'.update,
                                LAMBDA m, u : RAdd(RMul(call'.beta1, m), u))
                       /\ ret' = Ok(graft'.momentum)
               /\ call'.op # "update_momentum" => graft'.momentum = graft.momentum
               /\ (graft.class = "SGDGraft" /\ call'.op = "precondition_gradient")
                    => ret' = Ok(call'.grad)]_vars

C16_Witness ==
    /\ HasMomentum(graft) /\ call.op = "update_momentum"
    /\ Len(Updates) = 2 /\ Len(log) = 3
    /\ Updates[1].update # Updates[2].update
    /\ graft.momentum = WeightedSum
    /\ ret = Ok(graft.momentum)

\* The gradients passed to add_statistics so far, oldest first.
Seen == SelectSeq(log, LAMBDA c : c.op = "add_statistics")

\* The elementwise sum of the squares of the gradients seen.
SumOfSquaredGrads ==
    [GraftVar EXCEPT !.data =
        [f \in DOMAIN GraftVar.data |->
            RSumSeq([k \in 1..Len(Seen) |->
                RMul(Seen[k].grad.data[f], Seen[k].grad.data[f])])]]

\* C17: the accumulator of AdagradGraft starts at zero and is, after any
\* add_statistics calls with any beta2, the elementwise sum of the squares of
\* the gradients seen; it is elementwise non-negative and no call decreases an
\* element of it; precondition_gradient(g) returns
\* g / (sqrt(accumulator) + diagonal_eps) elementwise and leaves the
\* accumulator alone.
C17_AdagradAccumulator ==
    /\ [](graft.class = "AdagradGraft"
            => /\ graft.statistics = SumOfSquaredGrads
               /\ \A f \in DOMAIN graft.statistics.data :
                     RLe(RZero, graft.statistics.data[f]))
    /\ [][graft.class = "AdagradGraft"
            => /\ \A f \in DOMAIN graft.statistics.data :
                     RLe(graft.statistics.data[f], graft'.statistics.data[f])
               /\ call'.op = "precondition_gradient"
                    => /\ graft'.statistics = graft.statistics
                       /\ ~Raised(ret')
                       /\ \A f \in DOMAIN call'.grad.data :
                             LET d == RAdd(Sqrt(graft.statistics.data[f]),
                                           graft.diagonal_eps)
                                 r == ret'.val.data[f]
                             IN  IF d = RZero
                                 THEN r \in {"nan", "inf", "-inf"}
                                 ELSE RMul(r, d) = call'.grad.data[f]]_vars

C17_Witness ==
    /\ graft.class = "AdagradGraft" /\ call.op = "precondition_gradient"
    /\ Len(Seen) = 2 /\ Seen[1].beta2 # Seen[2].beta2
    /\ graft.statistics = Vector(<<R(25), R(9)>>)
    /\ call.grad = Vector(<<R(4), R(3)>>)
    /\ ret = Ok(Vector(<<RDiv(R(4), RAdd(R(5), graft.diagonal_eps)),
                         RDiv(R(3), RAdd(R(3), graft.diagonal_eps))>>))

PreconditionedBySQRTN == graft.class = "SQRTNGraft" /\ call.op = "precondition_gradient"

\* C18 as stated: every element of the result of precondition_gradient of
\* SQRTNGraft has magnitude 1, for every gradient.
C18_UnitMagnitude ==
    PreconditionedBySQRTN
        => \A f \in DOMAIN ret.val.data : RAbs(ret.val.data[f]) = ROne

\* C18, amended: SQRTNGraft has no attributes and no call changes it;
\* precondition_gradient returns the elementwise sign of the gradient: an
\* element of the result is 1 where the gradient is positive, -1 where it is
\* negative and 0 where it is zero.
C18_ElementwiseSign ==
    /\ [](graft.class = "SQRTNGraft" => DOMAIN graft = {"class"})
    /\ [][graft.class = "SQRTNGraft" => graft' = graft]_vars
    /\ [](PreconditionedBySQRTN
            => /\ ret.val.shape = call.grad.shape
               /\ \A f \in DOMAIN call.grad.data :
                     LET g == call.grad.data[f]
                         r == ret.val.data[f]
                     IN  /\ r \in {R(-1), RZero, ROne}
                         /\ RMul(r, RAbs(g)) = g
                         /\ r = RZero <=> g = RZero)

C18_Witness ==
    /\ PreconditionedBySQRTN
    /\ call.grad = Vector(<<R(-3), R(0)>>)
    /\ ret = Ok(Vector(<<R(-1), R(0)>>))

(***************************************************************************)
(* Properties of two PreConditioners (SpecTwo).                            *)
(***************************************************************************)
\* C19: two PreConditioners of different variables share no mutable state:
\* after any interleaving of their calls, the statistics and the
\* preconditioner matrices of each are those that its own calls, alone and
\* in the same order, give.
C19_Isolation ==
    \A i \in Instances :
        /\ Instance(i).statistics = alone[i].self.statistics
        /\ Instance(i).pre_conditioners = alone[i].self.pre_conditioners

(***************************************************************************)
(* Further properties of the PreConditioner.                               *)
(***************************************************************************)
\* C21: compute_pre_conditioners overwrites preconditioner matrices only:
\* after the call every statistics matrix has the value it had before it.
C21_StatisticsKept ==
    [][call'.op = "compute_pre_conditioners" => pre'.statistics = pre.statistics]_vars

\* C22: the exponent that compute_pre_conditioners hands to compute_power,
\* and compute_power to matrix_power, is one of 1, 2, 4, 8.
C22_ExponentPowerOfTwo ==
    (call.op = "compute_pre_conditioners" /\ pre.statistics # <<>>)
        => exponent_for_pre_conditioner(pre) \in {1, 2, 4, 8}

\* Every preconditioner matrix is the identity it was initialised to.
AllIdentity(self) ==
    \A k \in 1..Len(self.pre_conditioners) :
        self.pre_conditioners[k] = torch_eye(self.pre_conditioners[k].shape[1])

\* C23: while every preconditioner matrix is still the identity,
\* preconditioned_grad(grad) returns a tensor equal to grad in shape and in
\* every element, for every shape, block_size, dimension merging and type,
\* however many add_statistics calls were made.
C23_IdentityPreconditioning ==
    (call.op = "preconditioned_grad" /\ AllIdentity(pre)) => ret = Ok(call.grad)

\* Three axes cut into blocks, type INPUT, after two add_statistics calls.
C23_Witness ==
    /\ call.op = "preconditioned_grad" /\ AllIdentity(pre)
    /\ steps = MaxSteps
    /\ Len(pre.transformed_shape) = 3
    /\ Len(pre.pre_conditioners) > 2
    /\ ctor.pre_conditioner_type = INPUT
    /\ \E f \in DOMAIN call.grad.data : call.grad.data[f] # RZero
    /\ ret = Ok(call.grad)

(***************************************************************************)
(* Properties of merge_small_dims (SpecMerge).                             *)
(***************************************************************************)
\* C24: for every shape of positive dimensions and every max_dim,
\* merge_small_dims returns a shape with the product of the input dimensions;
\* every dimension of it is at most max_dim or is one input dimension that
\* exceeds max_dim; and it has no dimension 1, unless it is <<1>> and every
\* input dimension is 1.
C24_MergedShape ==
    call.op = "merge_small_dims"
        => LET s == call.shape_to_merge
               r == ret.val
           IN  /\ ~Raised(ret)
               /\ Prod(r) = Prod(s)
               /\ \A k \in 1..Len(r) :
                     \/ r[k] <= call.max_dim
                     \/ \E j \in 1..Len(s) : s[j] = r[k] /\ s[j] > call.max_dim
               /\ (\E k \in 1..Len(r) : r[k] = 1)
                     => /\ r = <<1>>
                        /\ s # <<>>
                        /\ \A j \in 1..Len(s) : s[j] = 1

\* Two axes are merged, the next does not fit, and the axis of length 1 after
\* it is absorbed.
C24_Witness ==
    /\ call.op = "merge_small_dims"
    /\ call.shape_to_merge = <<2, 2, 3, 1>>
    /\ call.max_dim = 4
    /\ ret = Ok(<<4, 3>>)
====
